---- MODULE Spec2Model ----
(***************************************************************************)
(* A model of the LyncZ relay: the per-chain contract-config cache, the    *)
(* proof de-duplication set, the payment-info submission handler, the      *)
(* auto-cancellation service (startup and loop), the order activity feed   *)
(* and the gas ledger.                                                     *)
(***************************************************************************)
EXTENDS Integers, Sequences, FiniteSets, TLC

VARIABLES
    blockchain_clients,   \* AppState.blockchain_clients: chain ids with a registered client
    blockchain_client,    \* AppState.blockchain_client: chain id of the primary client, or NoChain
    now,                  \* the monotonic clock (seconds)
    chain_config,         \* the configuration each chain's contract currently holds
    config_cache,         \* AppState.config_cache
    cfg,                  \* the get_config_for_chain calls in progress, one per task
    proof_in_progress,    \* AppState.proof_in_progress
    wf,                   \* the proof workflows, one per worker
    guard_log,            \* the try_acquire / release calls made so far, in order
    orders,               \* the database's orders table, by order id
    onchain,              \* the accountLinesHash each chain's contract holds, by order id
    pay,                  \* the submit_payment_info requests, one per request slot
    clients,              \* auto-cancel's clients map: chain ids with an initialised client
    trades,               \* the database's trades table, by trade id
    chain_trade,          \* the status the escrow contract holds for each trade
    rc,                   \* the auto-cancel process: its loop, the tick in progress, its totals
    gas_costs,            \* the database's gas_costs table, in insertion order
    gas_summary,          \* the last answer of get_summary_by_chain
    boot,                 \* the auto-cancel service's startup: chain list, position, clients
    act,                  \* a get_order_activities request
    lk,                   \* the config_cache RwLock and the calls that take it
    nonce_store,          \* AppState.nonce_store: the creation time of each stored nonce
    auth                  \* the get_nonce / verify_siwe requests, one per task

vars == <<blockchain_clients, blockchain_client, now, chain_config, config_cache, cfg,
          proof_in_progress, wf, guard_log, orders, onchain, pay,
          clients, trades, chain_trade, rc, gas_costs, gas_summary, boot, act, lk,
          nonce_store, auth>>

ClientVars == <<blockchain_clients, blockchain_client>>
CfgVars == <<now, chain_config, config_cache, cfg>>
GuardVars == <<proof_in_progress, wf, guard_log>>
PayVars == <<orders, onchain, pay>>
ReconVars == <<clients, trades, chain_trade, rc, gas_costs>>
AuthVars == <<nonce_store, auth>>
AuxVars == <<gas_summary, boot, act, lk, AuthVars>>
NotCfg == <<GuardVars, PayVars, ReconVars, AuxVars>>
NotGuard == <<ClientVars, CfgVars, PayVars, ReconVars, AuxVars>>
NotPay == <<CfgVars, GuardVars, ReconVars, AuxVars>>
NotRecon == <<ClientVars, chain_config, config_cache, cfg, GuardVars, PayVars, AuxVars>>
NotBoot == <<ClientVars, CfgVars, GuardVars, PayVars, ReconVars, gas_summary, act, lk,
             AuthVars>>
NotAct == <<ClientVars, CfgVars, GuardVars, PayVars, ReconVars, gas_summary, boot, lk,
            AuthVars>>
NotGas == <<ClientVars, CfgVars, GuardVars, PayVars, clients, trades, chain_trade, rc,
            boot, act, lk, AuthVars>>
NotLk == <<GuardVars, PayVars, ReconVars, gas_summary, boot, act, AuthVars>>
NotAuth == <<ClientVars, chain_config, config_cache, cfg, GuardVars, PayVars, ReconVars,
             gas_summary, boot, act, lk>>

-----------------------------------------------------------------------------
(* Chains and clients                                                      *)

BASE_CHAIN_ID == 8453
ETH_CHAIN_ID == 1
ChainIds == {ETH_CHAIN_ID, BASE_CHAIN_ID}
NoChain == 0

\* with_blockchain_clients: the primary client is Base's when Base is registered,
\* otherwise the first client the map iterates (any of them).
PrimaryChoices(registered) ==
    IF BASE_CHAIN_ID \in registered THEN {BASE_CHAIN_ID}
    ELSE IF registered # {} THEN registered
    ELSE {NoChain}

\* get_blockchain_client: the chain of the client handed out for chain_id, which is
\* the primary client when none is registered for chain_id (NoChain for None).
get_blockchain_client(chain_id) ==
    IF chain_id \in blockchain_clients THEN chain_id ELSE blockchain_client

ClientsInit ==
    /\ blockchain_clients \in SUBSET ChainIds
    /\ blockchain_client \in PrimaryChoices(blockchain_clients)

-----------------------------------------------------------------------------
(* ChainConfigCache: AppState::get_config_for_chain                        *)

CONFIG_CACHE_TTL == 900
MaxTime == 1350
MaxVer == 1

\* The request-handling tasks that may be inside get_config_for_chain at once.
CfgTasks == {"t1", "t2"}
\* The clock advances in steps of half the TTL, so that an entry is seen at the
\* ages 0, TTL/2, TTL and 3*TTL/2.
TimeStep == CONFIG_CACHE_TTL \div 2
NoConfig == [chain |-> NoChain, ver |-> 0]
NoEntry == [present |-> FALSE, config |-> NoConfig, cached_at |-> 0]
CfgIdleTask ==
    [pc |-> "idle", chain_id |-> NoChain, force_refresh |-> FALSE, client |-> NoChain,
     config |-> NoConfig, result |-> "None", fetches |-> 0, wrote |-> FALSE]

\* cached.cached_at.elapsed() <= TTL: the boundary age counts as fresh.
IsFreshInclusive(entry) == entry.present /\ now - entry.cached_at <= CONFIG_CACHE_TTL

\* cache.get(&chain_id) is Some(cached) and cached.cached_at.elapsed() < TTL
IsFresh(entry) == entry.present /\ now - entry.cached_at < CONFIG_CACHE_TTL

CfgInit ==
    /\ now = 0
    /\ chain_config = [c \in ChainIds |-> [chain |-> c, ver |-> 0]]
    /\ config_cache = [c \in ChainIds |-> NoEntry]
    /\ cfg = [t \in CfgTasks |-> CfgIdleTask]

\* Time passes.
TimePasses ==
    /\ now + TimeStep <= MaxTime
    /\ now' = now + TimeStep
    /\ UNCHANGED <<blockchain_clients, blockchain_client, chain_config, config_cache, cfg>>
    /\ UNCHANGED NotCfg

\* The contract's owner changes a parameter on chain c.
ChainConfigChange(c) ==
    /\ chain_config[c].ver < MaxVer
    /\ chain_config' = [chain_config EXCEPT ![c].ver = @ + 1]
    /\ UNCHANGED <<blockchain_clients, blockchain_client, now, config_cache, cfg>>
    /\ UNCHANGED NotCfg

\* Lines 109-121: resolve the client, then (unless forced) look the cache up under
\* the read lock. Ends the call on a missing client or a fresh entry.
CfgStart(t, chain_id, force_refresh) ==
    /\ cfg[t].pc = "idle"
    /\ LET client == get_blockchain_client(chain_id)
           call == [CfgIdleTask EXCEPT !.chain_id = chain_id,
                                       !.force_refresh = force_refresh,
                                       !.client = client]
       IN  cfg' = [cfg EXCEPT ![t] =
               IF client = NoChain
                   THEN [call EXCEPT !.pc = "done", !.result = "NoClient"]
               ELSE IF ~force_refresh /\ IsFresh(config_cache[chain_id])
                   THEN [call EXCEPT !.pc = "done", !.result = "Ok",
                                     !.config = config_cache[chain_id].config]
               ELSE [call EXCEPT !.pc = "fetching", !.fetches = 1]]
    /\ UNCHANGED <<blockchain_clients, blockchain_client, now, chain_config, config_cache>>
    /\ UNCHANGED NotCfg

\* Line 125, Ok: the client's chain answers with its current configuration.
CfgFetchOk(t) ==
    /\ cfg[t].pc = "fetching"
    /\ cfg' = [cfg EXCEPT ![t].pc = "insert", ![t].config = chain_config[cfg[t].client]]
    /\ UNCHANGED <<blockchain_clients, blockchain_client, now, chain_config, config_cache>>
    /\ UNCHANGED NotCfg

\* A failed fetch that also drops the entry it could not refresh.
CfgFetchErrPoison(t) ==
    /\ cfg[t].pc = "fetching"
    /\ cfg' = [cfg EXCEPT ![t].pc = "done", ![t].result = "Upstream"]
    /\ config_cache' = [config_cache EXCEPT ![cfg[t].chain_id] = NoEntry]
    /\ UNCHANGED <<blockchain_clients, blockchain_client, now, chain_config>>
    /\ UNCHANGED NotCfg

\* Lines 125-126, Err: map_err and `?` return the error; the cache is not touched.
CfgFetchErr(t) ==
    /\ cfg[t].pc = "fetching"
    /\ cfg' = [cfg EXCEPT ![t].pc = "done", ![t].result = "Upstream"]
    /\ UNCHANGED <<blockchain_clients, blockchain_client, now, chain_config, config_cache>>
    /\ UNCHANGED NotCfg

\* Lines 128-135: under the write lock, insert the fetched configuration stamped
\* with Instant::now(), and return it.
CfgInsert(t) ==
    /\ cfg[t].pc = "insert"
    /\ config_cache' = [config_cache EXCEPT ![cfg[t].chain_id] =
           [present |-> TRUE, config |-> cfg[t].config, cached_at |-> now]]
    /\ cfg' = [cfg EXCEPT ![t].pc = "done", ![t].result = "Ok", ![t].wrote = TRUE]
    /\ UNCHANGED <<blockchain_clients, blockchain_client, now, chain_config>>
    /\ UNCHANGED NotCfg

\* The caller takes the result; the task is free for the next call.
CfgReturn(t) ==
    /\ cfg[t].pc = "done"
    /\ cfg' = [cfg EXCEPT ![t] = CfgIdleTask]
    /\ UNCHANGED <<blockchain_clients, blockchain_client, now, chain_config, config_cache>>
    /\ UNCHANGED NotCfg

CfgNext ==
    \/ TimePasses
    \/ \E c \in ChainIds : ChainConfigChange(c)
    \/ \E t \in CfgTasks, c \in ChainIds, f \in BOOLEAN : CfgStart(t, c, f)
    \/ \E t \in CfgTasks : CfgFetchOk(t)
    \/ \E t \in CfgTasks : CfgFetchErr(t)
    \/ \E t \in CfgTasks : CfgInsert(t)
    \/ \E t \in CfgTasks : CfgReturn(t)

-----------------------------------------------------------------------------
(* ProofDedupGuard: the set AppState.proof_in_progress and its two calls    *)

MaxGuardOps == 4

Workers == {"w1", "w2"}
GuardTrades == {"0xaa", "0xbb"}
NoTrade == "none"
WfIdle == [pc |-> "idle", trade |-> NoTrade]

GuardInit ==
    /\ proof_in_progress = {}
    /\ wf = [w \in Workers |-> WfIdle]
    /\ guard_log = <<>>

\* A try_acquire that marks the trade and lets the caller in whatever the set holds.
TryAcquireBlind(w, trade_id) ==
    /\ wf[w].pc = "idle"
    /\ Len(guard_log) < MaxGuardOps
    /\ proof_in_progress' = proof_in_progress \cup {trade_id}
    /\ wf' = [wf EXCEPT ![w] = [pc |-> "working", trade |-> trade_id]]
    /\ guard_log' = Append(guard_log, [op |-> "try_acquire", trade |-> trade_id, ret |-> TRUE])
    /\ UNCHANGED NotGuard

\* try_acquire(trade_id): under the write lock, test the mark and set it if absent.
TryAcquire(w, trade_id) ==
    /\ wf[w].pc = "idle"
    /\ Len(guard_log) < MaxGuardOps
    /\ LET free == trade_id \notin proof_in_progress
       IN  /\ proof_in_progress' = proof_in_progress \cup {trade_id}
           /\ wf' = [wf EXCEPT ![w] =
                  [pc |-> IF free THEN "working" ELSE "rejected", trade |-> trade_id]]
           /\ guard_log' = Append(guard_log,
                  [op |-> "try_acquire", trade |-> trade_id, ret |-> free])
    /\ UNCHANGED NotGuard

\* A release that leaves the mark in the set.
ReleaseKeepsMark(w) ==
    /\ wf[w].pc = "working"
    /\ wf' = [wf EXCEPT ![w] = WfIdle]
    /\ guard_log' = Append(guard_log,
           [op |-> "release", trade |-> wf[w].trade, ret |-> TRUE])
    /\ UNCHANGED proof_in_progress
    /\ UNCHANGED NotGuard

\* release(trade_id) by the workflow that holds the mark, on any of its exit paths.
Release(w) ==
    /\ wf[w].pc = "working"
    /\ proof_in_progress' = proof_in_progress \ {wf[w].trade}
    /\ wf' = [wf EXCEPT ![w] = WfIdle]
    /\ guard_log' = Append(guard_log,
           [op |-> "release", trade |-> wf[w].trade, ret |-> TRUE])
    /\ UNCHANGED NotGuard

\* A caller told "already processing" gives up without touching the set.
Rejected(w) ==
    /\ wf[w].pc = "rejected"
    /\ wf' = [wf EXCEPT ![w] = WfIdle]
    /\ UNCHANGED <<proof_in_progress, guard_log>>
    /\ UNCHANGED NotGuard

GuardNext ==
    \/ \E w \in Workers, t \in GuardTrades : TryAcquire(w, t)
    \/ \E w \in Workers : Release(w)
    \/ \E w \in Workers : Rejected(w)

-----------------------------------------------------------------------------
(* PaymentHashVerifier: submit_payment_info                                 *)

MAX_RETRIES == 3

PayReqs == {"r1", "r2"}
\* The ids a request may name: a real order id, and a transaction hash sent in its
\* place (no order has that id on any chain, no row has it in the database).
RealOrder == "O1"
TxHash == "TX"
OrderIds == {RealOrder, TxHash}
NoOrder == "none"

\* Strings are sequences of characters.
Empty == <<>>
IsSpace(ch) == ch = " "

RECURSIVE TrimStart(_)
TrimStart(s) == IF s # Empty /\ IsSpace(Head(s)) THEN TrimStart(Tail(s)) ELSE s

RECURSIVE TrimEnd(_)
TrimEnd(s) ==
    IF s # Empty /\ IsSpace(s[Len(s)]) THEN TrimEnd(SubSeq(s, 1, Len(s) - 1)) ELSE s

\* str::trim
Trim(s) == TrimEnd(TrimStart(s))

\* s.is_empty(), with no trimming.
IsEmptyUntrimmed(s) == s = Empty

\* s.trim().is_empty()
IsBlank(s) == Trim(s) = Empty

\* The plaintexts a request may carry: two that pass validation (one of them with
\* surrounding whitespace), one with a blank account_id, one with an empty account_name.
Plain1 == [account_id |-> <<"1">>, account_name |-> <<"A">>]
Plain2 == [account_id |-> <<" ", "2">>, account_name |-> <<"B", " ">>]
Plaintexts ==
    {Plain1, Plain2,
     [account_id |-> <<" ">>, account_name |-> <<"A">>],
     [account_id |-> <<"1">>, account_name |-> Empty]}

\* compute_account_lines_hash(account_name, account_id): a collision-free digest of
\* the two length-prefixed fields, in that order.
compute_account_lines_hash(account_name, account_id) == <<account_name, account_id>>
\* [0u8; 32]
ZeroHash == <<>>
\* String::new(), the initial last_on_chain_hash_hex
NoHash == <<Empty>>

NoRow == [present |-> FALSE, alipay_id |-> Empty, alipay_name |-> Empty, chain_id |-> NoChain]
PayIdle ==
    [pc |-> "idle", order_id |-> NoOrder, account_id |-> Empty, account_name |-> Empty,
     req_chain_id |-> NoChain, tx_hash |-> FALSE, client |-> NoChain,
     effective_order_id |-> NoOrder, attempt |-> 0, verified |-> FALSE,
     last_on_chain_hash |-> NoHash, got_zero_hash |-> FALSE, result |-> "None",
     db_reads |-> 0, queries |-> 0, tx_lookups |-> 0, fb_queries |-> 0, sleeps |-> 0,
     seen |-> {}, wrote |-> FALSE, chain_id |-> NoChain,
     all_zero |-> TRUE, last_answer |-> NoHash]

\* The order exists on Base with the commitment of Plain1; an order with the same id
\* exists on Ethereum with the commitment of Plain2 (ids are unique per chain only).
PayInit ==
    /\ onchain = [c \in ChainIds |-> [o \in OrderIds |->
           IF o # RealOrder THEN ZeroHash
           ELSE IF c = BASE_CHAIN_ID
               THEN compute_account_lines_hash(Plain1.account_name, Plain1.account_id)
               ELSE compute_account_lines_hash(Plain2.account_name, Plain2.account_id)]]
    /\ \E synced \in BOOLEAN :
           orders = [o \in OrderIds |->
               IF o = RealOrder /\ synced
                   THEN [NoRow EXCEPT !.present = TRUE, !.chain_id = BASE_CHAIN_ID]
                   ELSE NoRow]
    /\ pay = [r \in PayReqs |-> PayIdle]

\* The event listener inserts the row of an order created on Base.
OrderSynced(o) ==
    /\ o = RealOrder
    /\ ~orders[o].present
    /\ orders' = [orders EXCEPT ![o] = [NoRow EXCEPT !.present = TRUE, !.chain_id = BASE_CHAIN_ID]]
    /\ UNCHANGED <<onchain, pay, ClientVars>>
    /\ UNCHANGED NotPay

\* The write-once check relaxed to "already set to something else".
AlreadySetToOther(row, account_id, account_name) ==
    /\ row.present
    /\ row.alipay_id # Empty /\ row.alipay_name # Empty
    /\ row.alipay_id # account_id \/ row.alipay_name # account_name

\* Lines 538-539: the order was found and both of its payment fields are non-empty.
AlreadySet(row, account_id, account_name) ==
    /\ row.present
    /\ row.alipay_id # Empty /\ row.alipay_name # Empty

\* Lines 514-561: validate, read the order, apply the write-once check, determine
\* the chain id and look the client up.
PayStart(r, order_id, plain, req_chain_id, tx_hash) ==
    /\ pay[r].pc = "idle"
    /\ LET req == [PayIdle EXCEPT !.order_id = order_id,
                                  !.account_id = plain.account_id,
                                  !.account_name = plain.account_name,
                                  !.req_chain_id = req_chain_id,
                                  !.tx_hash = tx_hash,
                                  !.effective_order_id = order_id]
           row == orders[order_id]
           read == [req EXCEPT !.db_reads = 1]
           chain_id == IF row.present THEN row.chain_id ELSE req_chain_id
           client == IF chain_id = NoChain THEN NoChain ELSE get_blockchain_client(chain_id)
       IN  pay' = [pay EXCEPT ![r] =
               IF IsBlank(plain.account_id) \/ IsBlank(plain.account_name)
                   THEN [req EXCEPT !.pc = "done", !.result = "ValidationError"]
               ELSE IF AlreadySet(row, plain.account_id, plain.account_name)
                   THEN [read EXCEPT !.pc = "done", !.result = "AlreadySet"]
               ELSE IF chain_id = NoChain
                   THEN [read EXCEPT !.pc = "done", !.result = "NoChainId"]
               ELSE IF client = NoChain
                   THEN [read EXCEPT !.pc = "done", !.result = "NoClient",
                                     !.chain_id = chain_id]
               ELSE [read EXCEPT !.pc = "query", !.client = client, !.attempt = 1,
                                 !.chain_id = chain_id]]
    /\ UNCHANGED <<orders, onchain, ClientVars>>
    /\ UNCHANGED NotPay

\* A fallback that is taken for every unverified request carrying a tx_hash.
AfterLoopIgnoresZero(q) ==
    IF ~q.verified /\ q.tx_hash
        THEN [q EXCEPT !.pc = "fallback_tx"]
        ELSE [q EXCEPT !.pc = "finish"]

\* Lines 606-636, on leaving the retry loop: the fallback is taken when the request
\* is unverified, some attempt returned the zero hash, and a tx_hash was supplied.
AfterLoop(q) ==
    IF ~q.verified /\ q.got_zero_hash /\ q.tx_hash
        THEN [q EXCEPT !.pc = "fallback_tx"]
        ELSE [q EXCEPT !.pc = "finish"]

\* A retry loop that also sleeps after its last attempt.
NextAttemptSleepsAfterLast(q) ==
    IF q.attempt < MAX_RETRIES
        THEN [q EXCEPT !.attempt = @ + 1, !.sleeps = @ + 1]
        ELSE AfterLoop([q EXCEPT !.sleeps = @ + 1])

\* Lines 581-601, after an attempt that did not verify: sleep and go round again
\* unless this was the last attempt.
NextAttempt(q) ==
    IF q.attempt < MAX_RETRIES
        THEN [q EXCEPT !.attempt = @ + 1, !.sleeps = @ + 1]
        ELSE AfterLoop(q)

\* The answer of the chain's node to get_order_hash for an order id: the hash the
\* contract holds, or zero when the node lags behind the creating transaction.
NodeAnswer(client, order_id, lagging) ==
    IF lagging THEN ZeroHash ELSE onchain[client][order_id]

\* An attempt whose matching answer does not leave the retry loop.
PayQueryOkNoBreak(r, lagging) ==
    /\ pay[r].pc = "query"
    /\ LET hash == NodeAnswer(pay[r].client, pay[r].effective_order_id, lagging)
           q == [pay[r] EXCEPT !.queries = @ + 1, !.seen = @ \cup {hash},
                               !.last_on_chain_hash = hash,
                               !.last_answer = hash,
                               !.all_zero = (@ /\ hash = ZeroHash)]
           computed_hash == compute_account_lines_hash(q.account_name, q.account_id)
       IN  pay' = [pay EXCEPT ![r] =
               IF hash = computed_hash THEN NextAttempt([q EXCEPT !.verified = TRUE])
               ELSE IF hash = ZeroHash THEN NextAttempt([q EXCEPT !.got_zero_hash = TRUE])
               ELSE NextAttempt(q)]
    /\ UNCHANGED <<orders, onchain, ClientVars>>
    /\ UNCHANGED NotPay

\* Lines 570-595: one attempt of the retry loop whose query returned Ok(hash).
PayQueryOk(r, lagging) ==
    /\ pay[r].pc = "query"
    /\ LET hash == NodeAnswer(pay[r].client, pay[r].effective_order_id, lagging)
           q == [pay[r] EXCEPT !.queries = @ + 1, !.seen = @ \cup {hash},
                               !.last_on_chain_hash = hash,
                               !.last_answer = hash,
                               !.all_zero = (@ /\ hash = ZeroHash)]
           computed_hash == compute_account_lines_hash(q.account_name, q.account_id)
       IN  pay' = [pay EXCEPT ![r] =
               IF hash = computed_hash THEN AfterLoop([q EXCEPT !.verified = TRUE])
               ELSE IF hash = ZeroHash THEN NextAttempt([q EXCEPT !.got_zero_hash = TRUE])
               ELSE NextAttempt(q)]
    /\ UNCHANGED <<orders, onchain, ClientVars>>
    /\ UNCHANGED NotPay

\* Lines 596-602: one attempt whose query returned Err.
PayQueryErr(r) ==
    /\ pay[r].pc = "query"
    /\ pay' = [pay EXCEPT ![r] = NextAttempt([pay[r] EXCEPT
                   !.queries = @ + 1, !.all_zero = FALSE])]
    /\ UNCHANGED <<orders, onchain, ClientVars>>
    /\ UNCHANGED NotPay

\* Lines 610-613: get_order_id_from_tx returned the order the transaction created.
PayFallbackTxOk(r) ==
    /\ pay[r].pc = "fallback_tx"
    /\ pay' = [pay EXCEPT ![r].pc = "fallback_hash", ![r].tx_lookups = @ + 1,
                          ![r].effective_order_id = RealOrder]
    /\ UNCHANGED <<orders, onchain, ClientVars>>
    /\ UNCHANGED NotPay

\* Lines 629-631: get_order_id_from_tx failed.
PayFallbackTxErr(r) ==
    /\ pay[r].pc = "fallback_tx"
    /\ pay' = [pay EXCEPT ![r].pc = "finish", ![r].tx_lookups = @ + 1]
    /\ UNCHANGED <<orders, onchain, ClientVars>>
    /\ UNCHANGED NotPay

\* The fallback's query with line 618 left out: the reported on-chain hash is not
\* refreshed.
PayFallbackHashOkStale(r, lagging) ==
    /\ pay[r].pc = "fallback_hash"
    /\ LET hash == NodeAnswer(pay[r].client, pay[r].effective_order_id, lagging)
           q == pay[r]
           computed_hash == compute_account_lines_hash(q.account_name, q.account_id)
       IN  pay' = [pay EXCEPT ![r] =
               [q EXCEPT !.pc = "finish", !.fb_queries = @ + 1, !.seen = @ \cup {hash},
                         !.last_answer = hash,
                         !.verified = (hash = computed_hash)]]
    /\ UNCHANGED <<orders, onchain, ClientVars>>
    /\ UNCHANGED NotPay

\* Lines 616-623: the single query for the resolved order id returned Ok(hash).
PayFallbackHashOk(r, lagging) ==
    /\ pay[r].pc = "fallback_hash"
    /\ LET hash == NodeAnswer(pay[r].client, pay[r].effective_order_id, lagging)
           q == pay[r]
           computed_hash == compute_account_lines_hash(q.account_name, q.account_id)
       IN  pay' = [pay EXCEPT ![r] =
               [q EXCEPT !.pc = "finish", !.fb_queries = @ + 1, !.seen = @ \cup {hash},
                         !.last_on_chain_hash = hash,
                         !.last_answer = hash,
                         !.verified = (hash = computed_hash)]]
    /\ UNCHANGED <<orders, onchain, ClientVars>>
    /\ UNCHANGED NotPay

\* Lines 624-626: the single query for the resolved order id returned Err.
PayFallbackHashErr(r) ==
    /\ pay[r].pc = "fallback_hash"
    /\ pay' = [pay EXCEPT ![r].pc = "finish", ![r].fb_queries = @ + 1]
    /\ UNCHANGED <<orders, onchain, ClientVars>>
    /\ UNCHANGED NotPay

\* update_payment_info(order_id, account_id, account_name): sets the two fields of
\* the order's row; no row, no change.
update_payment_info(order_id, account_id, account_name) ==
    IF orders[order_id].present
        THEN [orders EXCEPT ![order_id].alipay_id = account_id,
                            ![order_id].alipay_name = account_name]
        ELSE orders

\* The end of the handler with the `if !verified` rejection left out.
PayFinishUnchecked(r) ==
    /\ pay[r].pc = "finish"
    /\ orders' = update_payment_info(pay[r].effective_order_id, pay[r].account_id,
                                     pay[r].account_name)
    /\ pay' = [pay EXCEPT ![r].pc = "done", ![r].result = "Ok", ![r].wrote = TRUE]
    /\ UNCHANGED <<onchain, ClientVars>>
    /\ UNCHANGED NotPay

\* The end of the handler storing under the order id of the URL.
PayFinishUnderRequestedId(r) ==
    /\ pay[r].pc = "finish"
    /\ \/ /\ ~pay[r].verified
          /\ pay' = [pay EXCEPT ![r].pc = "done", ![r].result = "HashMismatch"]
          /\ UNCHANGED orders
       \/ /\ pay[r].verified
          /\ orders' = update_payment_info(pay[r].order_id, pay[r].account_id,
                                           pay[r].account_name)
          /\ pay' = [pay EXCEPT ![r].pc = "done", ![r].result = "Ok", ![r].wrote = TRUE]
       \/ /\ pay[r].verified
          /\ pay' = [pay EXCEPT ![r].pc = "done", ![r].result = "DbError"]
          /\ UNCHANGED orders
    /\ UNCHANGED <<onchain, ClientVars>>
    /\ UNCHANGED NotPay

\* Lines 638-669: reject an unverified request with the hash mismatch, otherwise
\* store the plaintext under the effective order id (the update may fail).
PayFinish(r) ==
    /\ pay[r].pc = "finish"
    /\ \/ /\ ~pay[r].verified
          /\ pay' = [pay EXCEPT ![r].pc = "done", ![r].result = "HashMismatch"]
          /\ UNCHANGED orders
       \/ /\ pay[r].verified
          /\ orders' = update_payment_info(pay[r].effective_order_id, pay[r].account_id,
                                           pay[r].account_name)
          /\ pay' = [pay EXCEPT ![r].pc = "done", ![r].result = "Ok", ![r].wrote = TRUE]
       \/ /\ pay[r].verified
          /\ pay' = [pay EXCEPT ![r].pc = "done", ![r].result = "DbError"]
          /\ UNCHANGED orders
    /\ UNCHANGED <<onchain, ClientVars>>
    /\ UNCHANGED NotPay

\* The handler's return value. Every rejection of the handler is
\* ApiError::BadRequest(message) (lines 516, 541, 643, 650, 655); the hash mismatch
\* message embeds the computed hash and last_on_chain_hash_hex, which is still the
\* empty string when no query answered. A database error of line 661 is converted
\* by `?`.
PayResponse(q) ==
    LET BadRequest(message) ==
            [variant |-> "BadRequest", message |-> message,
             computed |-> NoHash, on_chain |-> NoHash]
    IN  CASE q.result = "ValidationError" ->
                 BadRequest("account_id and account_name cannot be empty")
          [] q.result = "AlreadySet" -> BadRequest("Payment info already set")
          [] q.result = "HashMismatch" ->
                 [BadRequest("Hash mismatch") EXCEPT
                      !.computed = compute_account_lines_hash(q.account_name, q.account_id),
                      !.on_chain = q.last_on_chain_hash]
          [] q.result = "NoClient" -> BadRequest("Cannot verify: no blockchain client")
          [] q.result = "NoChainId" -> BadRequest("chain_id is required")
          [] q.result = "DbError" ->
                 [variant |-> "DatabaseError", message |-> "update_payment_info",
                  computed |-> NoHash, on_chain |-> NoHash]
          [] OTHER ->
                 [variant |-> "Ok", message |-> "Payment info stored successfully",
                  computed |-> compute_account_lines_hash(q.account_name, q.account_id),
                  on_chain |-> NoHash]

PayNext ==
    \/ \E o \in OrderIds : OrderSynced(o)
    \/ \E r \in PayReqs, o \in OrderIds, p \in Plaintexts,
          c \in ChainIds \cup {NoChain}, tx \in BOOLEAN : PayStart(r, o, p, c, tx)
    \/ \E r \in PayReqs, lagging \in BOOLEAN : PayQueryOk(r, lagging)
    \/ \E r \in PayReqs : PayQueryErr(r)
    \/ \E r \in PayReqs : PayFallbackTxOk(r)
    \/ \E r \in PayReqs : PayFallbackTxErr(r)
    \/ \E r \in PayReqs, lagging \in BOOLEAN : PayFallbackHashOk(r, lagging)
    \/ \E r \in PayReqs : PayFallbackHashErr(r)
    \/ \E r \in PayReqs : PayFinish(r)

-----------------------------------------------------------------------------
(* TradeLifecycleStateMachine and ReconciliationLoop: bin/auto-cancel.rs    *)

TRADE_STATUS_PENDING == 0
TRADE_STATUS_SETTLED == 1
TRADE_STATUS_EXPIRED == 2

TradeStatuses == {TRADE_STATUS_PENDING, TRADE_STATUS_SETTLED, TRADE_STATUS_EXPIRED}
TradeIds == {"T1", "T2", "T3"}

\* The text of each trade id: T1 is 0x and 32 bytes of hex, T2 is 32 bytes of hex with
\* no prefix, T3 is 0x and 31 bytes of hex.
Repeat(ch, n) == [i \in 1..n |-> ch]
TradeIdText(t) ==
    CASE t = "T1" -> <<"0", "x">> \o Repeat("a", 64)
      [] t = "T2" -> Repeat("b", 64)
      [] OTHER -> <<"0", "x">> \o Repeat("c", 62)

HexDigits == {"0", "1", "2", "3", "4", "5", "6", "7", "8", "9", "a", "b", "c", "d", "e", "f"}

\* trade_id.strip_prefix("0x").unwrap_or(trade_id)
StripPrefix0x(s) ==
    IF Len(s) >= 2 /\ s[1] = "0" /\ s[2] = "x" THEN SubSeq(s, 3, Len(s)) ELSE s

\* parse_trade_id: Ok iff the text without its 0x prefix decodes as hex (an even
\* number of hex digits) to exactly 32 bytes.
parse_trade_id(s) ==
    LET hex == StripPrefix0x(s)
    IN  /\ Len(hex) % 2 = 0
        /\ \A i \in 1..Len(hex) : hex[i] \in HexDigits
        /\ Len(hex) \div 2 = 32

GasCosts == {5, 7}
MaxTicks == 3

\* eth_client is the client line 134 picked for the current trade; calls holds the
\* cancel_expired_trade calls of the tick in progress as <<trade, client>>, marked the
\* trades whose update_trade_status returned Ok in it, failed the trades whose
\* cancellation call returned Err in it and prev_failed those of the tick before;
\* ok_calls and ok_gas count the cancellation calls that returned Ok since the
\* process started, and their gas.
RcInit ==
    [pc |-> "query", expired_trades |-> <<>>, idx |-> 0, selected_at |-> 0,
     cancelled_count |-> 0, total_gas_wei |-> 0, gas_cost |-> 0,
     total_trades_cancelled |-> 0, total_gas_spent_wei |-> 0, ticks |-> 0,
     eth_client |-> NoChain, calls |-> {}, marked |-> {},
     failed |-> {}, prev_failed |-> {}, ok_calls |-> 0, ok_gas |-> 0]

\* GasCostRepository::create: INSERT INTO gas_costs. auto-cancel.rs has no call of
\* it.
GasCostRepository_create(gas_cost) == Append(gas_costs, gas_cost)

\* The trades exist (created by buyers, Pending on chain and in the database); the
\* service has started with at least one client.
ReconInit ==
    /\ clients \in (SUBSET ChainIds) \ {{}}
    /\ trades = [t \in TradeIds |->
           [status |-> TRADE_STATUS_PENDING,
            chain_id |-> IF t = "T2" THEN ETH_CHAIN_ID ELSE BASE_CHAIN_ID,
            expires_at |-> IF t = "T1" THEN 400 ELSE 850,
            settlement_tx_hash |-> FALSE]]
    /\ chain_trade = [t \in TradeIds |-> TRADE_STATUS_PENDING]
    /\ rc = RcInit
    /\ gas_costs = <<>>

\* A status update that writes whatever status it is asked to.
update_trade_status_unguarded(t, status, tx) ==
    [trades EXCEPT ![t].status = status, ![t].settlement_tx_hash = tx]

\* The state machine's transition: Pending -> Settled (attaching the settlement tx
\* hash) and Pending -> Expired are applied; any other request leaves the record
\* untouched.
update_trade_status(t, status, tx) ==
    IF trades[t].status = TRADE_STATUS_PENDING
            /\ status \in {TRADE_STATUS_SETTLED, TRADE_STATUS_EXPIRED}
        THEN [trades EXCEPT ![t].status = status, ![t].settlement_tx_hash = tx]
        ELSE trades

\* get_expired_pending_trades: Pending trades whose expires_at has passed.
ExpiredPending == {t \in TradeIds :
    trades[t].status = TRADE_STATUS_PENDING /\ trades[t].expires_at < now}

\* The sequences that list each element of S once.
Orderings(S) == {q \in [1..Cardinality(S) -> S] : \A i, j \in 1..Cardinality(S) :
    q[i] = q[j] => i = j}

\* The settlement transaction of a Pending trade succeeds on chain.
SettleOnChain(t) ==
    /\ chain_trade[t] = TRADE_STATUS_PENDING
    /\ chain_trade' = [chain_trade EXCEPT ![t] = TRADE_STATUS_SETTLED]
    /\ UNCHANGED <<clients, trades, rc, now, gas_costs>>
    /\ UNCHANGED NotRecon

\* The settlement path records a trade settled on chain: Pending -> Settled.
SettleDb(t) ==
    /\ chain_trade[t] = TRADE_STATUS_SETTLED
    /\ trades[t].status = TRADE_STATUS_PENDING
    /\ trades' = update_trade_status(t, TRADE_STATUS_SETTLED, TRUE)
    /\ UNCHANGED <<clients, chain_trade, rc, now, gas_costs>>
    /\ UNCHANGED NotRecon

\* A caller requests a transition of a trade that is no longer Pending (a repeated
\* or late request).
LateRequest(t, status) ==
    /\ trades[t].status # TRADE_STATUS_PENDING
    /\ trades' = update_trade_status(t, status, status = TRADE_STATUS_SETTLED)
    /\ UNCHANGED <<clients, chain_trade, rc, now, gas_costs>>
    /\ UNCHANGED NotRecon

\* Lines 119-128, Ok: the query returns the expired pending trades; none, and the
\* tick returns (0, 0) at once.
ReconQueryOk(list) ==
    /\ rc.pc = "query"
    /\ list \in Orderings(ExpiredPending)
    /\ rc' = [rc EXCEPT !.pc = IF list = <<>> THEN "return_ok" ELSE "trade",
                        !.expired_trades = list, !.idx = 1, !.selected_at = now,
                        !.cancelled_count = 0, !.total_gas_wei = 0,
                        !.eth_client = NoChain, !.calls = {}, !.marked = {},
                        !.failed = {}, !.prev_failed = rc.failed]
    /\ UNCHANGED <<clients, trades, chain_trade, now, gas_costs>>
    /\ UNCHANGED NotRecon

\* Line 119, Err: `?` returns the query's error from the tick.
ReconQueryErr ==
    /\ rc.pc = "query"
    /\ rc' = [rc EXCEPT !.pc = "return_err", !.expired_trades = <<>>, !.idx = 1,
                        !.selected_at = now, !.cancelled_count = 0, !.total_gas_wei = 0,
                        !.eth_client = NoChain, !.calls = {}, !.marked = {},
                        !.failed = {}, !.prev_failed = rc.failed]
    /\ UNCHANGED <<clients, trades, chain_trade, now, gas_costs>>
    /\ UNCHANGED NotRecon

\* The client lookup with the fallback of AppState::get_blockchain_client: a trade
\* whose chain has no client is cancelled through some other chain's client.
ReconTradeFallback ==
    /\ rc.pc = "trade"
    /\ rc' =
        IF rc.idx > Len(rc.expired_trades) THEN [rc EXCEPT !.pc = "return_ok"]
        ELSE LET t == rc.expired_trades[rc.idx]
                 c == IF trades[t].chain_id \in clients THEN trades[t].chain_id
                      ELSE CHOOSE other \in clients : TRUE
             IN  IF ~parse_trade_id(TradeIdText(t)) THEN [rc EXCEPT !.pc = "return_err"]
                 ELSE [rc EXCEPT !.pc = "cancel", !.eth_client = c]
    /\ UNCHANGED <<clients, trades, chain_trade, now, gas_costs>>
    /\ UNCHANGED NotRecon

\* Lines 130-146: the next trade of the list. No client for its chain: skip it. An
\* id that does not parse: `?` returns the error from the tick. Otherwise submit the
\* cancellation. Past the last trade, line 178 returns the tick's counts.
ReconTrade ==
    /\ rc.pc = "trade"
    /\ rc' =
        IF rc.idx > Len(rc.expired_trades) THEN [rc EXCEPT !.pc = "return_ok"]
        ELSE LET t == rc.expired_trades[rc.idx]
             IN  IF trades[t].chain_id \notin clients THEN [rc EXCEPT !.idx = @ + 1]
                 ELSE IF ~parse_trade_id(TradeIdText(t)) THEN [rc EXCEPT !.pc = "return_err"]
                 ELSE [rc EXCEPT !.pc = "cancel", !.eth_client = trades[t].chain_id]
    /\ UNCHANGED <<clients, trades, chain_trade, now, gas_costs>>
    /\ UNCHANGED NotRecon

\* Lines 148-157, Ok: the contract cancels the trade (it is Pending on chain); the
\* call returns the transaction hash and its gas cost.
ReconCancelOk(gas_cost) ==
    /\ rc.pc = "cancel"
    /\ LET t == rc.expired_trades[rc.idx]
       IN  /\ chain_trade[t] = TRADE_STATUS_PENDING
           /\ chain_trade' = [chain_trade EXCEPT ![t] = TRADE_STATUS_EXPIRED]
    /\ rc' = [rc EXCEPT !.pc = "update", !.gas_cost = gas_cost,
                        !.calls = @ \cup {<<rc.expired_trades[rc.idx], rc.eth_client>>},
                        !.ok_calls = @ + 1, !.ok_gas = @ + gas_cost]
    /\ UNCHANGED <<clients, trades, now, gas_costs>>
    /\ UNCHANGED NotRecon

\* A failed cancellation that is handled like a successful one.
ReconCancelErrAsOk ==
    /\ rc.pc = "cancel"
    /\ rc' = [rc EXCEPT !.pc = "update", !.gas_cost = 0]
    /\ UNCHANGED <<clients, trades, chain_trade, now, gas_costs>>
    /\ UNCHANGED NotRecon

\* Lines 167-175, Err: the call failed (the transaction reverted, or the node could
\* not be reached); warn and go on to the next trade.
ReconCancelErr ==
    /\ rc.pc = "cancel"
    /\ rc' = [rc EXCEPT !.pc = "trade", !.idx = @ + 1,
                        !.calls = @ \cup {<<rc.expired_trades[rc.idx], rc.eth_client>>},
                        !.failed = @ \cup {rc.expired_trades[rc.idx]}]
    /\ UNCHANGED <<clients, trades, chain_trade, now, gas_costs>>
    /\ UNCHANGED NotRecon

\* The arm of a successful cancellation without its database update.
ReconUpdateLogOnly(db_ok) ==
    /\ rc.pc = "update"
    /\ rc' = [rc EXCEPT !.pc = "trade", !.idx = @ + 1,
                        !.cancelled_count = @ + 1,
                        !.total_gas_wei = @ + rc.gas_cost,
                        !.marked = IF db_ok THEN @ \cup {rc.expired_trades[rc.idx]} ELSE @]
    /\ UNCHANGED <<clients, trades, chain_trade, now, gas_costs>>
    /\ UNCHANGED NotRecon

\* Lines 159-165: update the database status to Expired (a failure is only warned
\* about), then count the cancellation and its gas.
ReconUpdate(db_ok) ==
    /\ rc.pc = "update"
    /\ LET t == rc.expired_trades[rc.idx]
       IN  trades' = IF db_ok THEN update_trade_status(t, TRADE_STATUS_EXPIRED,
                                                       trades[t].settlement_tx_hash)
                     ELSE trades
    /\ rc' = [rc EXCEPT !.pc = "trade", !.idx = @ + 1,
                        !.cancelled_count = @ + 1,
                        !.total_gas_wei = @ + rc.gas_cost,
                        !.marked = IF db_ok THEN @ \cup {rc.expired_trades[rc.idx]} ELSE @]
    /\ UNCHANGED <<clients, chain_trade, now, gas_costs>>
    /\ UNCHANGED NotRecon

\* A main loop that leaves when a tick returns an error.
ReconReturnStopsOnErr ==
    /\ rc.pc = "return_ok"
    /\ rc' = IF rc.cancelled_count > 0
                 THEN [rc EXCEPT !.pc = "query", !.ticks = @ + 1,
                                 !.total_trades_cancelled = @ + rc.cancelled_count,
                                 !.total_gas_spent_wei = @ + rc.total_gas_wei]
                 ELSE [rc EXCEPT !.pc = "query", !.ticks = @ + 1]
    /\ rc.ticks < MaxTicks
    /\ UNCHANGED <<clients, trades, chain_trade, now, gas_costs>>
    /\ UNCHANGED NotRecon

\* Lines 85-108: main takes the tick's result, adds a non-zero count and its gas to
\* the totals (an Err is only logged), and sleeps until the next tick.
ReconReturn ==
    /\ rc.pc \in {"return_ok", "return_err"}
    /\ rc' = IF rc.pc = "return_ok" /\ rc.cancelled_count > 0
                 THEN [rc EXCEPT !.pc = "query", !.ticks = @ + 1,
                                 !.total_trades_cancelled = @ + rc.cancelled_count,
                                 !.total_gas_spent_wei = @ + rc.total_gas_wei]
                 ELSE [rc EXCEPT !.pc = "query", !.ticks = @ + 1]
    /\ rc.ticks < MaxTicks
    /\ UNCHANGED <<clients, trades, chain_trade, now, gas_costs>>
    /\ UNCHANGED NotRecon

ReconNext ==
    \/ TimePasses
    \/ \E t \in TradeIds : SettleOnChain(t)
    \/ \E t \in TradeIds : SettleDb(t)
    \/ \E t \in TradeIds, s \in TradeStatuses : LateRequest(t, s)
    \/ \E list \in UNION {Orderings(S) : S \in SUBSET TradeIds} : ReconQueryOk(list)
    \/ ReconQueryErr
    \/ ReconTrade
    \/ \E g \in GasCosts : ReconCancelOk(g)
    \/ ReconCancelErr
    \/ \E ok \in BOOLEAN : ReconUpdate(ok)
    \/ ReconReturn

-----------------------------------------------------------------------------
(* Startup of the auto-cancel service: Config::load's chain list and the    *)
(* client initialisation loop of bin/auto-cancel.rs                         *)

BootInit ==
    [pc |-> "load", chains |-> <<>>, idx |-> 0, clients |-> {}, result |-> "None"]

\* One entry of Config.chains, with what the environment holds for it: whether
\* its escrow address string parses as an address and whether EthereumClient::new
\* succeeds against its rpc_url.
ChainConfig(chain_id, escrow_ok, rpc_ok) ==
    [chain_id |-> chain_id, escrow_ok |-> escrow_ok, rpc_ok |-> rpc_ok]

ChainConfigs == [chain_id : ChainIds, escrow_ok : BOOLEAN, rpc_ok : BOOLEAN]

\* Config::load, lines 85-126: the primary chain first; the Ethereum entry when its
\* two variables are set (no check for a duplicate id); the Base entry when its two
\* variables are set and no entry has its id yet.
Config_load_chains(primary, eth, base) ==
    LET first == <<primary>>
        second == IF eth = <<>> THEN first ELSE Append(first, eth[1])
    IN  IF base = <<>> \/ \E i \in 1..Len(second) : second[i].chain_id = base[1].chain_id
            THEN second
            ELSE Append(second, base[1])

\* Lines 38-47: Config::load, the database connection and the relayer key; any of
\* them failing ends main before the chain loop.
BootLoadErr ==
    /\ boot.pc = "load"
    /\ boot' = [boot EXCEPT !.pc = "failed", !.result = "NoConfig"]
    /\ UNCHANGED NotBoot

BootLoad(primary, eth, base) ==
    /\ boot.pc = "load"
    /\ boot' = [boot EXCEPT !.pc = "chains", !.idx = 1,
                            !.chains = Config_load_chains(primary, eth, base)]
    /\ UNCHANGED NotBoot

\* Line 52: the escrow address of the entry does not parse; `?` returns the error
\* from main.
BootParseErr ==
    /\ boot.pc = "chains" /\ boot.idx <= Len(boot.chains)
    /\ ~boot.chains[boot.idx].escrow_ok
    /\ boot' = [boot EXCEPT !.pc = "failed", !.result = "AddressParse"]
    /\ UNCHANGED NotBoot

\* Lines 54-65: EthereumClient::new returned Ok; the client is put in the map
\* under the entry's chain id.
BootClientOk ==
    /\ boot.pc = "chains" /\ boot.idx <= Len(boot.chains)
    /\ boot.chains[boot.idx].escrow_ok /\ boot.chains[boot.idx].rpc_ok
    /\ boot' = [boot EXCEPT !.idx = @ + 1,
                            !.clients = @ \cup {boot.chains[boot.idx].chain_id}]
    /\ UNCHANGED NotBoot

\* Lines 66-69: EthereumClient::new returned Err; a warning, and on to the next
\* entry.
BootClientErr ==
    /\ boot.pc = "chains" /\ boot.idx <= Len(boot.chains)
    /\ boot.chains[boot.idx].escrow_ok /\ ~boot.chains[boot.idx].rpc_ok
    /\ boot' = [boot EXCEPT !.idx = @ + 1]
    /\ UNCHANGED NotBoot

\* Lines 73-82: after the loop, an empty map is an error; otherwise the monitoring
\* loop starts.
BootDone ==
    /\ boot.pc = "chains" /\ boot.idx > Len(boot.chains)
    /\ boot' = IF boot.clients = {}
                   THEN [boot EXCEPT !.pc = "failed", !.result = "NoClients"]
                   ELSE [boot EXCEPT !.pc = "running", !.result = "Ok"]
    /\ UNCHANGED NotBoot

OptionalChain(chain_id) ==
    {<<>>} \cup {<<c>> : c \in {x \in ChainConfigs : x.chain_id = chain_id}}

BootNext ==
    \/ BootLoadErr
    \/ \E primary \in ChainConfigs, eth \in OptionalChain(ETH_CHAIN_ID),
          base \in OptionalChain(BASE_CHAIN_ID) : BootLoad(primary, eth, base)
    \/ BootParseErr
    \/ BootClientOk
    \/ BootClientErr
    \/ BootDone

-----------------------------------------------------------------------------
(* ActivityReconstruction: get_order_activities                             *)

\* u128, scaled to 20 bits so that every product stays inside the checker's
\* integers; the overflow boundary U128_MAX \div fee_rate_bps scales with it.
U128_MAX == 2^20 - 1

NoField == -1
DEFAULT_FEE_RATE_BPS == 100
FeeRates == {30, DEFAULT_FEE_RATE_BPS}

\* str::parse::<u128>().unwrap_or(d): the number a decimal string denotes when it
\* fits the type, the default otherwise (a string is modelled by the number it
\* spells; NoField spells no number).
parse_u128_or(x, d) == IF x \in 0..U128_MAX THEN x ELSE d

\* u128 multiplication as the build performs it: with overflow checks the product
\* of an overflowing pair panics (NoField here), without them it wraps.
u128_mul(a, b, overflow_checks) ==
    IF a * b <= U128_MAX THEN a * b
    ELSE IF overflow_checks THEN NoField
    ELSE (a * b) % (U128_MAX + 1)

\* Lines 362-368: the recorded fee, or the one computed from the fee rate.
compute_fee_amount(trade, fee_rate_bps, overflow_checks) ==
    IF trade.fee_amount # NoField THEN trade.fee_amount
    ELSE LET token_amount_u128 == parse_u128_or(trade.token_amount, 0)
             product == u128_mul(token_amount_u128, fee_rate_bps, overflow_checks)
         IN  IF product = NoField THEN NoField ELSE product \div 10000

ActivityTimes == {1, 3}
ExpiryWindows == {1, 3}
TokenAmounts == {10000, 10486, U128_MAX + 1}
WithdrawalTimes == {2}

\* The rows get_all_trades_by_order may return: status 3 is one the handler does
\* not know; a trade expires after it was created.
DbTrades ==
    {t \in [status : 0..3, created_at : ActivityTimes, expires_at : 2..6,
            token_amount : TokenAmounts, fee_amount : {NoField, 7}] :
        t.expires_at - t.created_at \in ExpiryWindows}

SeqsUpTo(S, n) == UNION {[1..k -> S] : k \in 0..n}

OrderActivity(kind, trade_id, created_at, expires_at, expired_at, settled_at, fee) ==
    [kind |-> kind, trade_id |-> trade_id, created_at |-> created_at,
     expires_at |-> expires_at, expired_at |-> expired_at, settled_at |-> settled_at,
     fee_amount |-> fee]

\* Lines 345-400: the activity pushed for one trade (none for an unknown status).
\* A trade's id is its position among the rows read.
TradeActivity(trade_id, trade, fee_rate_bps, overflow_checks) ==
    CASE trade.status = 0 ->
            <<OrderActivity("PendingTrade", trade_id, trade.created_at, trade.expires_at,
                            NoField, NoField, NoField)>>
      [] trade.status = 1 ->
            <<OrderActivity("Trade", trade_id, NoField, NoField, NoField, trade.created_at,
                            compute_fee_amount(trade, fee_rate_bps, overflow_checks))>>
      [] trade.status = 2 ->
            <<OrderActivity("ExpiredTrade", trade_id, trade.created_at, NoField,
                            trade.expires_at, NoField, NoField)>>
      [] OTHER -> <<>>

RECURSIVE TradeActivities(_, _, _, _)
TradeActivities(rows, i, fee_rate_bps, overflow_checks) ==
    IF i > Len(rows) THEN <<>>
    ELSE TradeActivity(i, rows[i], fee_rate_bps, overflow_checks)
            \o TradeActivities(rows, i + 1, fee_rate_bps, overflow_checks)

\* Lines 403-412: one Withdrawal activity per withdrawal row.
WithdrawalActivities(rows) ==
    [i \in 1..Len(rows) |->
        OrderActivity("Withdrawal", NoField, rows[i], NoField, NoField, NoField, NoField)]

\* Lines 417-422: the timestamp the comparator extracts from an activity.
SortTimestamp(a) ==
    CASE a.kind = "Trade" -> a.settled_at
      [] a.kind = "PendingTrade" -> a.created_at
      [] a.kind = "ExpiredTrade" -> a.created_at
      [] OTHER -> a.created_at

\* Lines 416-430: Vec::sort_by with ts_b.cmp(&ts_a), a stable sort into descending
\* order of the extracted timestamps.
RECURSIVE InsertDescending(_, _)
InsertDescending(sorted, a) ==
    IF sorted = <<>> THEN <<a>>
    ELSE IF SortTimestamp(Head(sorted)) >= SortTimestamp(a)
        THEN <<Head(sorted)>> \o InsertDescending(Tail(sorted), a)
        ELSE <<a>> \o sorted

RECURSIVE sort_by(_)
sort_by(activities) ==
    IF activities = <<>> THEN <<>>
    ELSE InsertDescending(sort_by(SubSeq(activities, 1, Len(activities) - 1)),
                          activities[Len(activities)])

ActIdle ==
    [pc |-> "idle", trades |-> <<>>, withdrawals |-> <<>>,
     fee_rate_bps |-> 0, activities |-> <<>>, result |-> "None"]

\* Lines 323-332, an error: get_order, get_all_trades_by_order or
\* get_withdrawals_by_order failed and `?` returned it.
ActStartErr ==
    /\ act.pc = "idle"
    /\ act' = [act EXCEPT !.pc = "done", !.result = "DbError"]
    /\ UNCHANGED NotAct

\* Lines 323-332: the order, its trades and its withdrawals were read.
ActStart(trade_rows, withdrawal_rows) ==
    /\ act.pc = "idle"
    /\ act' = [act EXCEPT !.pc = "config", !.trades = trade_rows,
                          !.withdrawals = withdrawal_rows]
    /\ UNCHANGED NotAct

\* Lines 338-339: get_config_for_chain returned a configuration; its fee_rate_bps
\* string is parsed, 100 standing in for one that does not parse.
ActConfigOk(fee_rate_string) ==
    /\ act.pc = "config"
    /\ act' = [act EXCEPT !.pc = "build",
                          !.fee_rate_bps = parse_u128_or(fee_rate_string, DEFAULT_FEE_RATE_BPS)]
    /\ UNCHANGED NotAct

\* Line 340: get_config_for_chain returned an error; the rate is 100.
ActConfigErr ==
    /\ act.pc = "config"
    /\ act' = [act EXCEPT !.pc = "build", !.fee_rate_bps = DEFAULT_FEE_RATE_BPS]
    /\ UNCHANGED NotAct

\* Lines 345-437: build the activities, sort them and answer. With overflow checks
\* compiled in, a fee product that overflows panics and there is no answer.
ActRespond(overflow_checks) ==
    /\ act.pc = "build"
    /\ LET built == TradeActivities(act.trades, 1, act.fee_rate_bps, overflow_checks)
                        \o WithdrawalActivities(act.withdrawals)
       IN  act' = IF \E i \in 1..Len(built) :
                         built[i].kind = "Trade" /\ built[i].fee_amount = NoField
                      THEN [act EXCEPT !.pc = "done", !.result = "Panic"]
                      ELSE [act EXCEPT !.pc = "done", !.result = "Ok",
                                       !.activities = sort_by(built)]
    /\ UNCHANGED NotAct

ActNext ==
    \/ ActStartErr
    \/ \E trade_rows \in SeqsUpTo(DbTrades, 2), withdrawal_rows \in SeqsUpTo(WithdrawalTimes, 1) :
          ActStart(trade_rows, withdrawal_rows)
    \/ \E fee_rate_string \in FeeRates \cup {NoField} : ActConfigOk(fee_rate_string)
    \/ ActConfigErr
    \/ \E overflow_checks \in BOOLEAN : ActRespond(overflow_checks)

-----------------------------------------------------------------------------
(* GasLedger: GasCostRepository::create and ::get_summary_by_chain          *)

MaxGasRows == 3
\* The operation names, in the order ORDER BY "operation" puts them.
Operations == <<"cancelExpiredTrade", "fillOrder">>
CostsWei == {5, 7}
DbGasCosts == [chain_id : ChainIds, operation : {Operations[i] : i \in 1..Len(Operations)},
               cost_wei : CostsWei]

\* NUMERIC ::TEXT for a non-negative integer: its decimal digits.
RECURSIVE numeric_to_text(_)
numeric_to_text(n) ==
    IF n < 10 THEN <<n>> ELSE Append(numeric_to_text(n \div 10), n % 10)

\* A grouping that leaves the WHERE clause out.
GroupRowsAnyChain(table, chain_id, operation) ==
    SelectSeq(table, LAMBDA g : g.operation = operation)

\* WHERE "chainId" = $1 GROUP BY "operation": the rows of a chain with an operation.
GroupRows(table, chain_id, operation) ==
    SelectSeq(table, LAMBDA g : g.chain_id = chain_id /\ g.operation = operation)

\* SUM("costWei") over a group, in NUMERIC (arbitrary precision).
RECURSIVE SumCostWei(_)
SumCostWei(rows) ==
    IF rows = <<>> THEN 0 ELSE Head(rows).cost_wei + SumCostWei(Tail(rows))

\* Lines 58-91: one GasCostSummary per operation that has rows for the chain, in
\* operation order.
RECURSIVE SummaryFrom(_, _, _)
SummaryFrom(table, chain_id, i) ==
    IF i > Len(Operations) THEN <<>>
    ELSE LET group == GroupRows(table, chain_id, Operations[i])
             rest == SummaryFrom(table, chain_id, i + 1)
         IN  IF group = <<>> THEN rest
             ELSE <<[operation |-> Operations[i], count |-> Len(group),
                     total_cost_wei |-> numeric_to_text(SumCostWei(group))]>> \o rest

get_summary_by_chain(chain_id) == SummaryFrom(gas_costs, chain_id, 1)

NoSummary == [chain_id |-> NoChain, rows |-> <<>>]

\* A transaction of the relay wallet is recorded (the callers of create are not in
\* this repository's auto-cancel binary).
GasRecord(gas_cost) ==
    /\ Len(gas_costs) < MaxGasRows
    /\ gas_costs' = GasCostRepository_create(gas_cost)
    /\ UNCHANGED gas_summary
    /\ UNCHANGED NotGas

\* A caller asks for the summary of a chain.
GasSummarize(chain_id) ==
    /\ gas_summary' = [chain_id |-> chain_id, rows |-> get_summary_by_chain(chain_id)]
    /\ UNCHANGED gas_costs
    /\ UNCHANGED NotGas

GasNext ==
    \/ \E gas_cost \in DbGasCosts : GasRecord(gas_cost)
    \/ \E chain_id \in ChainIds : GasSummarize(chain_id)

-----------------------------------------------------------------------------
(* The RwLock around config_cache in AppState::get_config_for_chain         *)

LockTasks == {"a", "b"}
NoTask == "none"

LkIdleTask == [pc |-> "idle", chain_id |-> NoChain, config |-> NoConfig, result |-> "None"]

\* The lock is free and no call is in progress.
LkInit == [readers |-> {}, writer |-> NoTask, task |-> [t \in LockTasks |-> LkIdleTask]]

\* Lines 109-113: resolve the client; a forced call goes straight to the fetch,
\* any other call asks for the read lock.
LkCall(t, chain_id, force_refresh) ==
    /\ lk.task[t].pc = "idle"
    /\ LET call == [LkIdleTask EXCEPT !.chain_id = chain_id] IN
       lk' = [lk EXCEPT !.task[t] =
               IF get_blockchain_client(chain_id) = NoChain
                   THEN [call EXCEPT !.pc = "done", !.result = "NoClient"]
               ELSE IF force_refresh THEN [call EXCEPT !.pc = "fetching"]
               ELSE [call EXCEPT !.pc = "read_wait"]]
    /\ UNCHANGED <<ClientVars, CfgVars>>
    /\ UNCHANGED NotLk

\* Line 114: config_cache.read().await completes once no writer holds the lock.
LkAcquireRead(t) ==
    /\ lk.task[t].pc = "read_wait"
    /\ lk.writer = NoTask
    /\ lk' = [lk EXCEPT !.readers = @ \cup {t}, !.task[t].pc = "reading"]
    /\ UNCHANGED <<ClientVars, CfgVars>>
    /\ UNCHANGED NotLk

\* A lookup whose read guard lives on past the if block on a miss.
LkLookupKeepsGuard(t) ==
    /\ lk.task[t].pc = "reading"
    /\ LET entry == config_cache[lk.task[t].chain_id] IN
       lk' = IF IsFresh(entry)
                 THEN [lk EXCEPT !.readers = @ \ {t}, !.task[t].pc = "done",
                                 !.task[t].result = "Ok", !.task[t].config = entry.config]
                 ELSE [lk EXCEPT !.task[t].pc = "fetching"]
    /\ UNCHANGED <<ClientVars, CfgVars>>
    /\ UNCHANGED NotLk

\* Lines 115-121: the lookup under the read guard. A fresh entry is returned; on a
\* miss the if block ends. Either way the guard is dropped here.
LkLookup(t) ==
    /\ lk.task[t].pc = "reading"
    /\ LET entry == config_cache[lk.task[t].chain_id] IN
       lk' = IF IsFresh(entry)
                 THEN [lk EXCEPT !.readers = @ \ {t}, !.task[t].pc = "done",
                                 !.task[t].result = "Ok", !.task[t].config = entry.config]
                 ELSE [lk EXCEPT !.readers = @ \ {t}, !.task[t].pc = "fetching"]
    /\ UNCHANGED <<ClientVars, CfgVars>>
    /\ UNCHANGED NotLk

\* Line 125, Ok: get_contract_config().await returned the chain's configuration.
LkFetchOk(t) ==
    /\ lk.task[t].pc = "fetching"
    /\ lk' = [lk EXCEPT !.task[t].pc = "write_wait",
                        !.task[t].config = chain_config[get_blockchain_client(lk.task[t].chain_id)]]
    /\ UNCHANGED <<ClientVars, CfgVars>>
    /\ UNCHANGED NotLk

\* Lines 125-126, Err: the error is returned.
LkFetchErr(t) ==
    /\ lk.task[t].pc = "fetching"
    /\ lk' = [lk EXCEPT !.task[t].pc = "done", !.task[t].result = "Upstream"]
    /\ UNCHANGED <<ClientVars, CfgVars>>
    /\ UNCHANGED NotLk

\* Line 129: config_cache.write().await completes once nobody holds the lock.
LkAcquireWrite(t) ==
    /\ lk.task[t].pc = "write_wait"
    /\ lk.writer = NoTask /\ lk.readers = {}
    /\ lk' = [lk EXCEPT !.writer = t, !.task[t].pc = "writing"]
    /\ UNCHANGED <<ClientVars, CfgVars>>
    /\ UNCHANGED NotLk

\* Lines 130-135: insert under the write guard, which is dropped at the return.
LkInsert(t) ==
    /\ lk.task[t].pc = "writing"
    /\ config_cache' = [config_cache EXCEPT ![lk.task[t].chain_id] =
           [present |-> TRUE, config |-> lk.task[t].config, cached_at |-> now]]
    /\ lk' = [lk EXCEPT !.writer = NoTask, !.task[t].pc = "done", !.task[t].result = "Ok"]
    /\ UNCHANGED <<ClientVars, now, chain_config, cfg>>
    /\ UNCHANGED NotLk

\* The caller takes the result; the task is free for the next call.
LkReturn(t) ==
    /\ lk.task[t].pc = "done"
    /\ lk' = [lk EXCEPT !.task[t] = LkIdleTask]
    /\ UNCHANGED <<ClientVars, CfgVars>>
    /\ UNCHANGED NotLk

LkNext ==
    \/ TimePasses
    \/ \E t \in LockTasks, c \in ChainIds, f \in BOOLEAN : LkCall(t, c, f)
    \/ \E t \in LockTasks : LkAcquireRead(t)
    \/ \E t \in LockTasks : LkLookup(t)
    \/ \E t \in LockTasks : LkFetchOk(t)
    \/ \E t \in LockTasks : LkFetchErr(t)
    \/ \E t \in LockTasks : LkAcquireWrite(t)
    \/ \E t \in LockTasks : LkInsert(t)
    \/ \E t \in LockTasks : LkReturn(t)

-----------------------------------------------------------------------------
(* Authentication: NonceStore and verify_siwe (auth.rs)                     *)

NONCE_EXPIRY_SECS == 300
MaxAuthOps == 4
AuthTasks == {"a", "b"}
\* The 16-character strings rand can produce, two of them; a third string that
\* was never issued is what a client makes up.
Nonces == {"n1", "n2"}
NoNonce == "none"
Signatures == {"valid", "invalid", "malformed"}
NoNonceEntry == -1

AuthIdleTask ==
    [pc |-> "idle", nonce |-> NoNonce, signature |-> "valid", nonce_valid |-> FALSE,
     result |-> "None"]

\* NonceStore::new; no request in progress. fresh and issued_at record, for each
\* nonce, whether it was issued and not consumed since, and when it was issued.
AuthInit ==
    [task |-> [t \in AuthTasks |-> AuthIdleTask], ops |-> 0, fresh |-> {},
     issued_at |-> [n \in Nonces |-> 0]]

NonceStoreInit == [n \in Nonces |-> NoNonceEntry]

\* Lines 96-103, under the write lock: drop the expired entries, then insert the
\* new nonce stamped with Instant::now().
NonceStore_generate(store, nonce) ==
    [n \in Nonces |->
        IF n = nonce THEN now
        ELSE IF store[n] # NoNonceEntry /\ now - store[n] < NONCE_EXPIRY_SECS THEN store[n]
        ELSE NoNonceEntry]

\* A consume that looks the entry up and leaves it in the map.
NonceStore_consume_peek(store, nonce) ==
    [store |-> store,
     ret |-> nonce \in Nonces /\ store[nonce] # NoNonceEntry
                 /\ now - store[nonce] < NONCE_EXPIRY_SECS]

\* Lines 110-115, under the write lock: remove the entry; true when there was one
\* and it is younger than the expiry.
NonceStore_consume(store, nonce) ==
    [store |-> [n \in Nonces |-> IF n = nonce THEN NoNonceEntry ELSE store[n]],
     ret |-> nonce \in Nonces /\ store[nonce] # NoNonceEntry
                 /\ now - store[nonce] < NONCE_EXPIRY_SECS]

\* get_nonce / generate, lines 89-94: the random string is drawn (nothing keeps it
\* from being one drawn before); the call then waits for the write lock.
AuthGetNonce(t, nonce) ==
    /\ auth.task[t].pc = "idle" /\ auth.ops < MaxAuthOps
    /\ auth' = [auth EXCEPT !.task[t] = [AuthIdleTask EXCEPT !.pc = "gen_wait", !.nonce = nonce],
                            !.ops = @ + 1]
    /\ UNCHANGED <<nonce_store, now>>
    /\ UNCHANGED NotAuth

\* generate, lines 96-105: the critical section, and the nonce is returned.
AuthGenerate(t) ==
    /\ auth.task[t].pc = "gen_wait"
    /\ nonce_store' = NonceStore_generate(nonce_store, auth.task[t].nonce)
    /\ auth' = [auth EXCEPT !.task[t].pc = "done", !.task[t].result = "Nonce",
                            !.fresh = @ \cup {auth.task[t].nonce},
                            !.issued_at[auth.task[t].nonce] = now]
    /\ UNCHANGED now
    /\ UNCHANGED NotAuth

\* verify_siwe, lines 166-174: parse the message (an unparsable one is rejected
\* with nothing touched), then ask the store to consume its nonce.
AuthVerifyStart(t, parses, nonce, signature) ==
    /\ auth.task[t].pc = "idle" /\ auth.ops < MaxAuthOps
    /\ auth' = [auth EXCEPT !.ops = @ + 1, !.task[t] =
           IF ~parses THEN [AuthIdleTask EXCEPT !.pc = "done", !.result = "InvalidMessage"]
           ELSE [AuthIdleTask EXCEPT !.pc = "consume_wait", !.nonce = nonce,
                                     !.signature = signature]]
    /\ UNCHANGED <<nonce_store, now>>
    /\ UNCHANGED NotAuth

\* A verify_siwe that only looks the nonce up before the signature check and
\* leaves it in the store.
AuthConsumeAfterSignature(t) ==
    /\ auth.task[t].pc = "consume_wait"
    /\ LET c == NonceStore_consume_peek(nonce_store, auth.task[t].nonce) IN
       /\ UNCHANGED nonce_store
       /\ auth' = [auth EXCEPT !.task[t] =
              IF c.ret THEN [@ EXCEPT !.pc = "signature", !.nonce_valid = TRUE]
              ELSE [@ EXCEPT !.pc = "done", !.result = "InvalidNonce"]]
    /\ UNCHANGED now
    /\ UNCHANGED NotAuth

\* Lines 174-179: consume, and the rejection of a nonce that is not valid.
AuthConsume(t) ==
    /\ auth.task[t].pc = "consume_wait"
    /\ LET c == NonceStore_consume(nonce_store, auth.task[t].nonce) IN
       /\ nonce_store' = c.store
       /\ auth' = [auth EXCEPT !.fresh = @ \ {auth.task[t].nonce}, !.task[t] =
              IF c.ret THEN [@ EXCEPT !.pc = "signature", !.nonce_valid = TRUE]
              ELSE [@ EXCEPT !.pc = "done", !.result = "InvalidNonce"]]
    /\ UNCHANGED now
    /\ UNCHANGED NotAuth

\* Lines 182-232: decode the signature, verify the message with it and issue the
\* token.
AuthCheckSignature(t) ==
    /\ auth.task[t].pc = "signature"
    /\ auth' = [auth EXCEPT !.task[t].pc = "done", !.task[t].result =
           CASE auth.task[t].signature = "malformed" -> "InvalidSignatureFormat"
             [] auth.task[t].signature = "invalid" -> "Unauthorized"
             [] OTHER -> "Token"]
    /\ UNCHANGED <<nonce_store, now>>
    /\ UNCHANGED NotAuth

\* The response is sent; the task is free for the next request.
AuthReturn(t) ==
    /\ auth.task[t].pc = "done" /\ auth.ops < MaxAuthOps
    /\ auth' = [auth EXCEPT !.task[t] = AuthIdleTask]
    /\ UNCHANGED <<nonce_store, now>>
    /\ UNCHANGED NotAuth

AuthNext ==
    \/ TimePasses
    \/ \E t \in AuthTasks, n \in Nonces : AuthGetNonce(t, n)
    \/ \E t \in AuthTasks : AuthGenerate(t)
    \/ \E t \in AuthTasks, parses \in BOOLEAN, n \in Nonces \cup {"n0"}, s \in Signatures :
          AuthVerifyStart(t, parses, n, s)
    \/ \E t \in AuthTasks : AuthConsume(t)
    \/ \E t \in AuthTasks : AuthCheckSignature(t)
    \/ \E t \in AuthTasks : AuthReturn(t)

-----------------------------------------------------------------------------
(* Specifications                                                          *)


ClientsIdle == blockchain_clients = ChainIds /\ blockchain_client = BASE_CHAIN_ID

\* The request slots at rest, for the specifications that leave them alone.
PayAtRest ==
    /\ onchain = [c \in ChainIds |-> [o \in OrderIds |-> ZeroHash]]
    /\ orders = [o \in OrderIds |-> NoRow]
    /\ pay = [r \in PayReqs |-> PayIdle]

\* The auto-cancel process at rest, for the specifications that leave it alone.
ReconAtRest ==
    /\ clients = ChainIds
    /\ trades = [t \in TradeIds |->
           [status |-> TRADE_STATUS_PENDING, chain_id |-> BASE_CHAIN_ID, expires_at |-> 0,
            settlement_tx_hash |-> FALSE]]
    /\ chain_trade = [t \in TradeIds |-> TRADE_STATUS_PENDING]
    /\ rc = RcInit
    /\ gas_costs = <<>>

\* The startup, the activity feed, the gas summary and the cache lock at rest.
AuxAtRest ==
    /\ gas_summary = NoSummary /\ boot = BootInit /\ act = ActIdle /\ lk = LkInit
    /\ nonce_store = NonceStoreInit /\ auth = AuthInit

InitCfg == ClientsInit /\ CfgInit /\ GuardInit /\ PayAtRest /\ ReconAtRest /\ AuxAtRest
SpecCfg == InitCfg /\ [][CfgNext]_vars

InitGuard == ClientsIdle /\ CfgInit /\ GuardInit /\ PayAtRest /\ ReconAtRest /\ AuxAtRest
SpecGuard == InitGuard /\ [][GuardNext]_vars

\* The callers' obligation: a workflow that holds a mark reaches one of its exit
\* paths and releases it there.
SpecGuardLive ==
    InitGuard /\ [][GuardNext]_vars /\ \A w \in Workers : WF_vars(Release(w))

\* The steps of one submit_payment_info request after its entry.
PayStep(r) ==
    \/ \E lagging \in BOOLEAN : PayQueryOk(r, lagging)
    \/ PayQueryErr(r)
    \/ PayFallbackTxOk(r)
    \/ PayFallbackTxErr(r)
    \/ \E lagging \in BOOLEAN : PayFallbackHashOk(r, lagging)
    \/ PayFallbackHashErr(r)
    \/ PayFinish(r)

InitPay == ClientsInit /\ CfgInit /\ GuardInit /\ PayInit /\ ReconAtRest /\ AuxAtRest
SpecPay == InitPay /\ [][PayNext]_vars

InitRecon == ClientsIdle /\ CfgInit /\ GuardInit /\ PayAtRest /\ ReconInit /\ AuxAtRest
SpecRecon == InitRecon /\ [][ReconNext]_vars

\* Everything at rest: the state the four specifications below start from.
InitIdle == ClientsIdle /\ CfgInit /\ GuardInit /\ PayAtRest /\ ReconAtRest /\ AuxAtRest

SpecBoot == InitIdle /\ [][BootNext]_vars
SpecAct == InitIdle /\ [][ActNext]_vars
SpecGas == InitIdle /\ [][GasNext]_vars
SpecLk == InitIdle /\ [][LkNext]_vars
SpecAuth == InitIdle /\ [][AuthNext]_vars

\* The steps of the auto-cancel process itself.
ReconProcess ==
    \/ \E list \in UNION {Orderings(S) : S \in SUBSET TradeIds} : ReconQueryOk(list)
    \/ ReconQueryErr
    \/ ReconTrade
    \/ \E g \in GasCosts : ReconCancelOk(g)
    \/ ReconCancelErr
    \/ \E ok \in BOOLEAN : ReconUpdate(ok)
    \/ ReconReturn

-----------------------------------------------------------------------------
(* Properties                                                               *)

ComputedHash(q) == compute_account_lines_hash(q.account_name, q.account_id)
Plaintext(row) == <<row.alipay_id, row.alipay_name>>
AllSpaces(s) == \A i \in 1..Len(s) : s[i] = " "
FailedWithoutStore ==
    {"ValidationError", "AlreadySet", "HashMismatch", "NoClient", "NoChainId"}

\* C1: submit_payment_info writes the plaintext to the database only after a hash
\* query of the same request returned the computed commitment: a request that wrote
\* has seen its commitment on chain and ended Ok, every change of a row's payment
\* fields is the write of such a request, and a request that ended in a validation
\* failure, a mismatch, a missing chain id or a missing client wrote nothing.
C1_StoredOnlyAfterMatch ==
    /\ [](\A r \in PayReqs :
            /\ pay[r].wrote => ComputedHash(pay[r]) \in pay[r].seen /\ pay[r].result = "Ok"
            /\ pay[r].result \in FailedWithoutStore => ~pay[r].wrote)
    /\ [][\A o \in OrderIds : Plaintext(orders'[o]) # Plaintext(orders[o]) =>
            \E r \in PayReqs :
                /\ ~pay[r].wrote /\ pay'[r].wrote
                /\ ComputedHash(pay[r]) \in pay[r].seen
                /\ Plaintext(orders'[o]) = <<pay[r].account_id, pay[r].account_name>>]_vars

\* A request has stored its plaintext in the order's row.
C1_Witness ==
    \E r \in PayReqs :
        /\ pay[r].wrote
        /\ Plaintext(orders[pay[r].effective_order_id]) =
               <<pay[r].account_id, pay[r].account_name>>

C3_MonotonicStatus ==
    [][\A t \in TradeIds :
        /\ trades[t].status # TRADE_STATUS_PENDING => trades'[t] = trades[t]
        /\ trades'[t].status # trades[t].status =>
               trades'[t].status \in {TRADE_STATUS_SETTLED, TRADE_STATUS_EXPIRED}]_vars

\* One trade has been settled and another expired by a tick.
C3_Witness ==
    \E t1, t2 \in TradeIds :
        /\ trades[t1].status = TRADE_STATUS_SETTLED /\ trades[t1].settlement_tx_hash
        /\ trades[t2].status = TRADE_STATUS_EXPIRED /\ rc.total_trades_cancelled > 0

\* C4: a trade's database status becomes Expired only in the step of a tick that
\* follows a successful cancel_expired_trade call for that trade (the contract holds
\* it cancelled), the trade having been selected by that tick as Pending with
\* expires_at in the past.
C4_ExpiredOnlyAfterCancel ==
    [][\A t \in TradeIds :
        (trades[t].status # TRADE_STATUS_EXPIRED /\ trades'[t].status = TRADE_STATUS_EXPIRED)
        => /\ rc.pc = "update" /\ rc.expired_trades[rc.idx] = t
           /\ trades[t].status = TRADE_STATUS_PENDING
           /\ trades[t].expires_at < rc.selected_at
           /\ chain_trade[t] = TRADE_STATUS_EXPIRED]_vars

\* A tick has cancelled a trade and marked it Expired.
C4_Witness ==
    \E t \in TradeIds :
        /\ trades[t].status = TRADE_STATUS_EXPIRED
        /\ chain_trade[t] = TRADE_STATUS_EXPIRED
        /\ rc.cancelled_count > 0

Holders(t) == {w \in Workers : wf[w].pc = "working" /\ wf[w].trade = t}
LogIdx == 1..Len(guard_log)
IsAcquire(i, t) == guard_log[i].op = "try_acquire" /\ guard_log[i].trade = t
IsRelease(i, t) == guard_log[i].op = "release" /\ guard_log[i].trade = t

\* C5: at most one workflow holds the in-progress mark of a trade at any time, and
\* two try_acquire calls for the same trade with no release between them never both
\* return true.
C5_MutualExclusion ==
    \A t \in GuardTrades :
        /\ Cardinality(Holders(t)) <= 1
        /\ Holders(t) # {} => t \in proof_in_progress
        /\ \A i, j \in LogIdx :
               (i < j /\ IsAcquire(i, t) /\ IsAcquire(j, t)
                  /\ guard_log[i].ret /\ guard_log[j].ret)
               => \E k \in LogIdx : i < k /\ k < j /\ IsRelease(k, t)

\* One workflow holds a trade while another has been turned away from it.
C5_Witness ==
    \E w1, w2 \in Workers :
        /\ wf[w1].pc = "working" /\ wf[w2].pc = "rejected"
        /\ wf[w1].trade = wf[w2].trade

\* C6: for every trade id, a try_acquire returns true when it is the first call for
\* the id or the call before it for that id was a release, and false when the call
\* before it for that id was a try_acquire (true, false, release, true).
C6_AcquireReleaseAcquire ==
    \A t \in GuardTrades : \A j \in LogIdx :
        IsAcquire(j, t) =>
            LET before == {i \in LogIdx : i < j /\ guard_log[i].trade = t}
                last == CHOOSE i \in before : \A k \in before : k <= i
            IN  guard_log[j].ret = (before = {} \/ guard_log[last].op = "release")

\* try_acquire true, try_acquire false, release, try_acquire true on one trade id.
C6_Witness ==
    /\ Len(guard_log) = 4
    /\ \E t \in GuardTrades :
        /\ IsAcquire(1, t) /\ guard_log[1].ret
        /\ IsAcquire(2, t) /\ ~guard_log[2].ret
        /\ IsRelease(3, t)
        /\ IsAcquire(4, t) /\ guard_log[4].ret

\* C7: a get_config_for_chain call that resolves a client fetches from upstream if
\* and only if force_refresh is set or the cache holds no entry for chain_id younger
\* than the TTL; it then makes exactly one fetch, and otherwise none, returning the
\* cached configuration.
C7_FetchIffStale ==
    /\ [][\A t \in CfgTasks :
            (cfg[t].pc = "idle" /\ cfg'[t].pc # "idle" /\ cfg'[t].client # NoChain) =>
                LET e == config_cache[cfg'[t].chain_id]
                    young == e.present /\ now - e.cached_at < CONFIG_CACHE_TTL
                    must == cfg'[t].force_refresh \/ ~young
                IN  /\ must <=> (cfg'[t].pc = "fetching" /\ cfg'[t].fetches = 1)
                    /\ ~must => /\ cfg'[t].pc = "done" /\ cfg'[t].fetches = 0
                                /\ cfg'[t].result = "Ok" /\ cfg'[t].config = e.config]_vars
    /\ [][\A t \in CfgTasks :
            (cfg[t].pc # "idle" /\ cfg'[t].pc # "idle") => cfg'[t].fetches = cfg[t].fetches]_vars

\* A call without force_refresh is fetching because the entry it found has reached
\* the TTL.
C7_Witness ==
    \E t \in CfgTasks :
        /\ cfg[t].pc = "fetching" /\ ~cfg[t].force_refresh
        /\ config_cache[cfg[t].chain_id].present
        /\ now - config_cache[cfg[t].chain_id].cached_at >= CONFIG_CACHE_TTL

\* C8: a get_config_for_chain call that fails leaves the whole cache as it was; an
\* entry changes only when a call's successful fetch is inserted, to that fetch's
\* configuration stamped with the current time.
C8_NoPoisoning ==
    /\ [][\A c \in ChainIds : config_cache'[c] # config_cache[c] =>
            \E t \in CfgTasks :
                /\ cfg[t].pc = "insert" /\ cfg[t].chain_id = c /\ cfg'[t].result = "Ok"
                /\ config_cache'[c] =
                       [present |-> TRUE, config |-> cfg[t].config, cached_at |-> now]]_vars
    /\ [][\A t \in CfgTasks :
            (cfg[t].result = "None" /\ cfg'[t].result \in {"NoClient", "Upstream"})
            => config_cache' = config_cache]_vars
    /\ [](\A t \in CfgTasks : cfg[t].result \in {"NoClient", "Upstream"} => ~cfg[t].wrote)

\* A refresh of an entry has failed and the entry is still there.
C8_Witness ==
    \E t \in CfgTasks :
        /\ cfg[t].result = "Upstream"
        /\ config_cache[cfg[t].chain_id].present

\* C9: a get_config_for_chain call for a chain with no registered client fails with
\* no client, makes no fetch, and no cache entry ever holds another chain's
\* configuration.
C9_NoFallback ==
    /\ \A t \in CfgTasks :
           (cfg[t].pc # "idle" /\ cfg[t].chain_id \notin blockchain_clients) =>
               cfg[t].pc = "done" /\ cfg[t].result = "NoClient" /\ cfg[t].fetches = 0
    /\ \A c \in ChainIds : config_cache[c].present => config_cache[c].config.chain = c

\* C10: a submit_payment_info whose account_id or account_name is blank (empty once
\* trimmed) has ended with ValidationError having read no order, queried no hash,
\* looked up no transaction and written nothing.
C10_ValidationFirst ==
    \A r \in PayReqs :
        (pay[r].pc # "idle" /\ (AllSpaces(pay[r].account_id) \/ AllSpaces(pay[r].account_name)))
        => /\ pay[r].pc = "done" /\ pay[r].result = "ValidationError"
           /\ pay[r].db_reads = 0 /\ pay[r].queries = 0 /\ pay[r].tx_lookups = 0
           /\ pay[r].fb_queries = 0 /\ pay[r].seen = {} /\ ~pay[r].wrote

\* A request with a whitespace-only account_id has been rejected.
C10_Witness ==
    \E r \in PayReqs :
        /\ pay[r].result = "ValidationError"
        /\ pay[r].account_id # Empty /\ AllSpaces(pay[r].account_id)

\* The counters of a request that has left the retry loop and the fallback behind.
PayCalls(q) == <<q.queries, q.sleeps, q.tx_lookups, q.fb_queries, q.effective_order_id>>

\* C11: when the first get_order_hash answer for the supplied order id is the
\* computed commitment, the request is verified on that step and goes on to the
\* store having made one hash query, no sleep, no get_order_id_from_tx call and no
\* fallback query, with the effective order id still the supplied one; nothing is
\* called between leaving the loop and returning.
C11_FirstAttemptVerifies ==
    /\ [][\A r \in PayReqs :
            (/\ pay[r].pc = "query" /\ pay[r].queries = 0 /\ pay'[r].queries = 1
             /\ pay'[r].last_answer = ComputedHash(pay[r]))
            => /\ pay'[r].verified /\ pay'[r].pc = "finish"
               /\ PayCalls(pay'[r]) = <<1, 0, 0, 0, pay[r].order_id>>]_vars
    /\ [][\A r \in PayReqs :
            pay[r].pc \in {"finish", "done"} => PayCalls(pay'[r]) = PayCalls(pay[r])]_vars

\* A request was verified by its first query and stored its plaintext.
C11_Witness ==
    \E r \in PayReqs :
        /\ pay[r].result = "Ok" /\ pay[r].wrote
        /\ PayCalls(pay[r]) = <<1, 0, 0, 0, pay[r].order_id>>
        /\ pay[r].last_answer = ComputedHash(pay[r])

\* C12: when all MAX_RETRIES attempts for the supplied id answered the zero hash and
\* the tx_hash resolved to another order id whose hash query answers the computed
\* commitment, the request is verified, and its store writes the plaintext to the
\* row of the resolved id and leaves the row of the supplied id alone.
C12_FallbackStoresUnderResolvedId ==
    /\ [][\A r \in PayReqs :
            (/\ pay[r].pc = "fallback_hash" /\ pay[r].all_zero
             /\ pay[r].queries = MAX_RETRIES
             /\ pay[r].effective_order_id # pay[r].order_id
             /\ pay'[r].fb_queries = pay[r].fb_queries + 1
             /\ pay'[r].last_answer = ComputedHash(pay[r]))
            => /\ pay'[r].verified /\ pay'[r].pc = "finish"
               /\ pay'[r].effective_order_id = pay[r].effective_order_id]_vars
    /\ [][\A r \in PayReqs :
            (/\ pay[r].pc = "finish" /\ pay[r].verified /\ pay[r].fb_queries > 0
             /\ pay[r].effective_order_id # pay[r].order_id
             /\ pay'[r].result = "Ok")
            => /\ orders'[pay[r].order_id] = orders[pay[r].order_id]
               /\ orders[pay[r].effective_order_id].present =>
                      Plaintext(orders'[pay[r].effective_order_id]) =
                          <<pay[r].account_id, pay[r].account_name>>]_vars

\* A request naming a transaction hash as its order id got three zero answers, was
\* verified through the fallback and stored its plaintext in the real order's row.
C12_Witness ==
    \E r \in PayReqs :
        /\ pay[r].order_id = TxHash /\ pay[r].effective_order_id = RealOrder
        /\ pay[r].all_zero /\ pay[r].queries = MAX_RETRIES /\ pay[r].tx_lookups = 1
        /\ pay[r].result = "Ok" /\ pay[r].wrote
        /\ Plaintext(orders[RealOrder]) = <<pay[r].account_id, pay[r].account_name>>
        /\ Plaintext(orders[TxHash]) = <<Empty, Empty>>

\* C13: get_order_id_from_tx has been called only by a request that supplied a
\* tx_hash and whose MAX_RETRIES attempts all answered the zero hash.
C13_FallbackOnlyAfterAllZero ==
    \A r \in PayReqs :
        pay[r].tx_lookups > 0 =>
            pay[r].tx_hash /\ pay[r].all_zero /\ pay[r].queries = MAX_RETRIES

\* C14: a request past the write-once check with no chain id from the row or the
\* body is rejected for the missing chain id, and one whose chain id has no
\* registered client is rejected for the missing client; neither queries a client
\* nor writes.
C14_NoVerificationWithoutOwnClient ==
    \A r \in PayReqs :
        (pay[r].pc # "idle" /\ pay[r].result \notin {"ValidationError", "AlreadySet"})
        => /\ pay[r].chain_id = NoChain =>
                  /\ pay[r].pc = "done"
                  /\ pay[r].result \in {"NoChainId", "NoClient"}
                  /\ pay[r].queries = 0 /\ ~pay[r].wrote
           /\ (pay[r].chain_id # NoChain /\ pay[r].chain_id \notin blockchain_clients) =>
                  /\ pay[r].pc = "done" /\ pay[r].result = "NoClient"
                  /\ pay[r].client = NoChain /\ pay[r].queries = 0 /\ ~pay[r].wrote

\* C15: a request that ends unverified after its queries returns the hash mismatch
\* carrying the computed hash and, when some query answered, the hash of the last
\* answer (the fallback's included).
C15_MismatchCarriesLastHash ==
    \A r \in PayReqs :
        (pay[r].pc = "done" /\ pay[r].queries > 0 /\ ~pay[r].verified)
        => /\ PayResponse(pay[r]).message = "Hash mismatch"
           /\ PayResponse(pay[r]).computed = ComputedHash(pay[r])
           /\ pay[r].seen # {} => PayResponse(pay[r]).on_chain = pay[r].last_answer

\* A request was rejected after its fallback query answered a hash that differs
\* from the answers of the retry loop.
C15_Witness ==
    \E r \in PayReqs :
        /\ pay[r].result = "HashMismatch" /\ pay[r].fb_queries = 1
        /\ pay[r].all_zero /\ pay[r].last_answer \notin {ZeroHash, NoHash}
        /\ PayResponse(pay[r]).on_chain = pay[r].last_answer

\* C16: a request all of whose hash queries failed with an RPC error is answered
\* with a chain-unavailable or upstream error, not with the hash mismatch.
C16_RpcFailureIsNotMismatch ==
    \A r \in PayReqs :
        (pay[r].pc = "done" /\ pay[r].queries > 0 /\ pay[r].seen = {})
        => /\ PayResponse(pay[r]).variant \in {"ChainUnavailable", "UpstreamError"}
           /\ PayResponse(pay[r]).message # "Hash mismatch"

\* The trade the tick is working on.
CurrentTrade == rc.expired_trades[rc.idx]

C18_OneGasRecordPerCancel ==
    rc.pc # "update" =>
        /\ \A t \in TradeIds : chain_trade[t] = TRADE_STATUS_EXPIRED =>
               Cardinality({i \in DOMAIN gas_costs :
                   /\ gas_costs[i].trade_id = t
                   /\ gas_costs[i].chain_id = trades[t].chain_id}) = 1
        /\ Len(gas_costs) = Cardinality({t \in TradeIds : chain_trade[t] = TRADE_STATUS_EXPIRED})

\* C19: when a tick whose query succeeded returns, every selected trade with a
\* registered client and an id that parses to 32 bytes has had cancel_expired_trade
\* called for it.
C19_EveryTradeAttempted ==
    rc.pc \in {"return_ok", "return_err"} =>
        \A i \in 1..Len(rc.expired_trades) :
            LET t == rc.expired_trades[i]
            IN  (trades[t].chain_id \in clients /\ parse_trade_id(TradeIdText(t)))
                    => \E c \in ChainIds : <<t, c>> \in rc.calls

\* C20: the tick's step on a selected trade whose chain has no client moves on to
\* the next trade without a cancellation call and without touching the trades table
\* or the contract; every cancellation call of a tick went to the client registered
\* for the trade's own chain.
C20_MissingClientSkips ==
    /\ [][(/\ rc.pc = "trade" /\ rc.idx <= Len(rc.expired_trades) /\ rc' # rc
           /\ trades[CurrentTrade].chain_id \notin clients)
            => /\ rc'.pc = "trade" /\ rc'.idx = rc.idx + 1
               /\ rc'.calls = rc.calls
               /\ trades' = trades /\ chain_trade' = chain_trade]_vars
    /\ [](\A call \in rc.calls :
            call[2] = trades[call[1]].chain_id /\ call[2] \in clients)
    /\ [](rc.pc = "cancel" => rc.eth_client = trades[CurrentTrade].chain_id)

\* A tick skipped a trade whose chain has no client, left it Pending, and went on
\* to call the cancellation of a later trade in its list.
C20_Witness ==
    \E i, j \in 1..Len(rc.expired_trades) :
        /\ i < j
        /\ trades[rc.expired_trades[i]].chain_id \notin clients
        /\ trades[rc.expired_trades[i]].status = TRADE_STATUS_PENDING
        /\ <<rc.expired_trades[j], trades[rc.expired_trades[j]].chain_id>> \in rc.calls

\* The trades of a sequence.
Range(seq) == {seq[i] : i \in DOMAIN seq}

\* C21: when a tick whose query succeeded returns, every trade whose cancellation
\* call failed in the tick before and whose database status is still Pending was
\* selected by this tick and has had its cancellation called again.
C21_FailedCancelRetriedNextTick ==
    (/\ rc.pc \in {"return_ok", "return_err"}
     /\ ~(rc.pc = "return_err" /\ rc.expired_trades = <<>>))
    => \A t \in rc.prev_failed :
           trades[t].status = TRADE_STATUS_PENDING =>
               /\ t \in Range(rc.expired_trades)
               /\ \E c \in ChainIds : <<t, c>> \in rc.calls

\* How far the tick in progress has come: the trade it is at, and the step of that
\* trade's handling.
TickProgress(r) ==
    r.idx * 4 + (CASE r.pc = "query" -> 0 [] r.pc = "trade" -> 1 [] r.pc = "cancel" -> 2
                   [] r.pc = "update" -> 3 [] OTHER -> 4 * (Len(r.expired_trades) + 2))

\* C22: no outcome of a tick stops the loop. In every state the process has a next
\* step (up to the number of ticks explored); each step inside a tick brings the
\* tick nearer its end; and a tick that has returned, Ok or Err, is followed by the
\* query of the next tick.
C22_LoopNeverStops ==
    /\ [](rc.ticks < MaxTicks => ENABLED ReconProcess)
    /\ [][(rc' # rc /\ rc.pc \in {"trade", "cancel", "update"})
            => TickProgress(rc') > TickProgress(rc)]_vars
    /\ [][(rc' # rc /\ rc.pc \in {"return_ok", "return_err"})
            => rc'.pc = "query" /\ rc'.ticks = rc.ticks + 1]_vars

\* The loop has gone on after a tick that ended with an error and after a tick in
\* which a cancellation call failed.
C22_Witness ==
    /\ rc.ticks >= 2 /\ rc.pc = "return_err"
    /\ rc.prev_failed # {}

\* C29: between ticks, total_trades_cancelled is the number of cancellation calls
\* that returned Ok since the process started and total_gas_spent_wei the sum of
\* their gas costs.
C29_TotalsMatchCancellations ==
    rc.pc = "query" =>
        /\ rc.total_trades_cancelled = rc.ok_calls
        /\ rc.total_gas_spent_wei = rc.ok_gas

\* C28: when every workflow that holds a mark releases it, a marked trade id is
\* always unmarked again later, and a try_acquire for an unmarked id lets its caller
\* in and marks it for the caller.
C28_NoPermanentMark ==
    /\ \A t \in GuardTrades : (t \in proof_in_progress) ~> (t \notin proof_in_progress)
    /\ [][\A w \in Workers :
            (wf[w].pc = "idle" /\ wf'[w].pc # "idle" /\ wf'[w].trade \notin proof_in_progress)
            => wf'[w].pc = "working" /\ wf'[w].trade \in proof_in_progress']_vars

\* A trade was marked and unmarked twice in a row, leaving it free for the next caller.
C28_Witness ==
    /\ Len(guard_log) = 4
    /\ \E t \in GuardTrades :
        /\ IsAcquire(1, t) /\ guard_log[1].ret
        /\ IsRelease(2, t)
        /\ IsAcquire(3, t) /\ guard_log[3].ret
        /\ IsRelease(4, t)
        /\ t \notin proof_in_progress

\* How far a request has come: the attempt number inside the retry loop, then the
\* fallback's two calls, the final check and the return.
PayProgress(q) ==
    CASE q.pc = "idle" -> 0
      [] q.pc = "query" -> q.attempt
      [] q.pc = "fallback_tx" -> MAX_RETRIES + 1
      [] q.pc = "fallback_hash" -> MAX_RETRIES + 2
      [] q.pc = "finish" -> MAX_RETRIES + 3
      [] OTHER -> MAX_RETRIES + 4

\* C30: one submit_payment_info request makes at most MAX_RETRIES get_order_hash
\* queries in its retry loop, at most one get_order_id_from_tx call and at most one
\* further get_order_hash query in the fallback; it has slept once after each attempt
\* but the one that ended the loop; and it always terminates: a request in flight
\* always has a next step, every step moves it forward, and it ends with a result.
C30_BoundedAndTerminates ==
    /\ [](\A r \in PayReqs :
            LET q == pay[r] IN
            /\ q.queries <= MAX_RETRIES /\ q.tx_lookups <= 1 /\ q.fb_queries <= 1
            /\ q.fb_queries <= q.tx_lookups
            /\ q.pc = "query" => q.queries = q.attempt - 1 /\ q.sleeps = q.queries
            /\ (q.pc # "query" /\ q.queries > 0) => q.sleeps = q.queries - 1
            /\ q.queries = 0 => q.sleeps = 0
            /\ q.pc \notin {"idle", "done"} => ENABLED PayStep(r)
            /\ q.pc = "done" <=> q.result # "None")
    /\ [][\A r \in PayReqs :
            pay'[r] # pay[r] => PayProgress(pay'[r]) > PayProgress(pay[r])]_vars

\* A request that used every call it may make: three attempts with two sleeps
\* between them, the transaction lookup and the fallback query, and has returned.
C30_Witness ==
    \E r \in PayReqs :
        /\ pay[r].pc = "done" /\ pay[r].result = "HashMismatch"
        /\ pay[r].queries = MAX_RETRIES /\ pay[r].sleeps = MAX_RETRIES - 1
        /\ pay[r].tx_lookups = 1 /\ pay[r].fb_queries = 1

\* C23: startup of the reconciliation service fails in its chain loop only when no
\* configured chain could be initialised; one chain's malformed escrow address or
\* failed client initialisation is not fatal while another chain's client
\* initialises.
C23_OnlyTotalFailureIsFatal ==
    (boot.pc = "failed" /\ boot.result # "NoConfig")
        => \A i \in 1..Len(boot.chains) :
               ~(boot.chains[i].escrow_ok /\ boot.chains[i].rpc_ok)

\* The timestamp the activity feed is specified to order an activity by.
SpecifiedTimestamp(a) ==
    CASE a.kind = "Trade" -> a.settled_at
      [] a.kind = "PendingTrade" -> a.created_at
      [] a.kind = "ExpiredTrade" -> a.expired_at
      [] OTHER -> a.created_at

\* C24: the activities get_order_activities returns are in most-recent-first order
\* of: settlement time for a settled trade, creation time for a pending trade,
\* expiry time for an expired trade, creation time for a withdrawal.
C24_SortedBySpecifiedTimestamps ==
    act.result = "Ok" =>
        \A i, j \in 1..Len(act.activities) :
            i < j => SpecifiedTimestamp(act.activities[i])
                        >= SpecifiedTimestamp(act.activities[j])

RECURSIVE text_to_int(_)
text_to_int(digits) ==
    IF digits = <<>> THEN 0
    ELSE 10 * text_to_int(SubSeq(digits, 1, Len(digits) - 1)) + digits[Len(digits)]

RECURSIVE SumOver(_, _)
SumOver(table, idxs) ==
    IF idxs = {} THEN 0
    ELSE LET i == CHOOSE i \in idxs : TRUE
         IN  table[i].cost_wei + SumOver(table, idxs \ {i})

\* C25: the answer of get_summary_by_chain(chain_id) has exactly one row for each
\* operation that occurs among the gas-cost records of that chain, and none for
\* any other operation; the row's count is the number of those records and its
\* total_cost_wei spells the exact sum of their cost_wei.
C25_SummaryPerOperationExact ==
    [][gas_summary' # gas_summary =>
        LET rows == gas_summary'.rows
            Recs(op) == {i \in 1..Len(gas_costs) :
                            /\ gas_costs[i].chain_id = gas_summary'.chain_id
                            /\ gas_costs[i].operation = op}
        IN  /\ \A n \in 1..Len(Operations) :
                   Cardinality({k \in 1..Len(rows) : rows[k].operation = Operations[n]})
                       = IF Recs(Operations[n]) = {} THEN 0 ELSE 1
            /\ \A k \in 1..Len(rows) :
                   /\ rows[k].count = Cardinality(Recs(rows[k].operation))
                   /\ text_to_int(rows[k].total_cost_wei)
                          = SumOver(gas_costs, Recs(rows[k].operation))]_vars

\* A summary for Base that adds up two of its records (5 + 7 wei) while the table
\* also holds a record of the same operation for Ethereum.
C25_Witness ==
    /\ gas_summary.chain_id = BASE_CHAIN_ID
    /\ Len(gas_summary.rows) = 1
    /\ gas_summary.rows[1].count = 2 /\ gas_summary.rows[1].total_cost_wei = <<1, 2>>
    /\ Len(gas_costs) = 3
    /\ \E i \in 1..3 : /\ gas_costs[i].chain_id = ETH_CHAIN_ID
                       /\ gas_costs[i].operation = gas_summary.rows[1].operation
    /\ Cardinality({i \in 1..3 : gas_costs[i].chain_id = BASE_CHAIN_ID}) = 2

\* C26: a finished get_order_activities request reports, for every settled trade
\* whose token_amount fits the integer type, the recorded fee_amount when there is
\* one and otherwise floor(token_amount * fee_rate_bps / 10000).
C26_FeeIsFloorOfProduct ==
    (act.pc = "done" /\ act.result # "DbError") =>
        \A i \in 1..Len(act.trades) :
            LET trade == act.trades[i] IN
            (trade.status = 1 /\ trade.token_amount \in 0..U128_MAX) =>
                \E k \in 1..Len(act.activities) :
                    /\ act.activities[k].kind = "Trade"
                    /\ act.activities[k].trade_id = i
                    /\ act.activities[k].fee_amount =
                           IF trade.fee_amount # NoField THEN trade.fee_amount
                           ELSE (trade.token_amount * act.fee_rate_bps) \div 10000

\* C27: a get_config_for_chain call whose upstream fetch is in flight holds neither
\* the read nor the write lock of config_cache; the read guard is gone when the
\* fetch starts and the write lock is taken only by a call whose fetch has
\* returned; so a call waiting to read the cache is held up only by a call that
\* is inserting, never by one that is fetching, and its lookup then completes.
C27_NoLockAcrossFetch ==
    /\ [](\A t \in LockTasks :
            /\ lk.task[t].pc = "fetching" => t \notin lk.readers /\ lk.writer # t
            /\ t \in lk.readers <=> lk.task[t].pc = "reading"
            /\ lk.writer = t <=> lk.task[t].pc = "writing"
            /\ (lk.task[t].pc = "read_wait" /\ \A u \in LockTasks : lk.task[u].pc # "writing")
                   => ENABLED LkAcquireRead(t)
            /\ lk.task[t].pc = "reading" => ENABLED LkLookup(t))
    /\ [][\A t \in LockTasks :
            /\ (lk'.task[t].pc = "fetching" /\ lk.task[t].pc # "fetching")
                   => t \notin lk'.readers /\ lk'.writer # t
            /\ (lk'.writer = t /\ lk.writer # t) => lk.task[t].pc = "write_wait"]_vars

\* One call is reading a fresh cache entry under the read lock while the other
\* call's forced fetch is in flight.
C27_Witness ==
    \E t, u \in LockTasks :
        /\ lk.task[t].pc = "fetching"
        /\ lk.task[u].pc = "reading" /\ u \in lk.readers
        /\ IsFresh(config_cache[lk.task[u].chain_id])

\* C31: a request whose MAX_RETRIES attempts were all non-zero mismatches or RPC
\* errors never calls get_order_id_from_tx nor the fallback query, even when it
\* carries a tx_hash; it is rejected with the hash mismatch and writes nothing.
C31_NoFallbackWithoutZeroHash ==
    \A r \in PayReqs :
        (/\ pay[r].pc \notin {"idle", "query"}
         /\ pay[r].queries = MAX_RETRIES
         /\ ZeroHash \notin pay[r].seen /\ ComputedHash(pay[r]) \notin pay[r].seen)
        => /\ pay[r].tx_lookups = 0 /\ pay[r].fb_queries = 0
           /\ pay[r].pc \in {"finish", "done"}
           /\ ~pay[r].wrote
           /\ pay[r].pc = "done" => pay[r].result = "HashMismatch"

\* A request carrying a tx_hash was rejected after a non-zero mismatching answer
\* and RPC errors, without a transaction lookup.
C31_Witness ==
    \E r \in PayReqs :
        /\ pay[r].pc = "done" /\ pay[r].result = "HashMismatch" /\ pay[r].tx_hash
        /\ pay[r].queries = MAX_RETRIES /\ pay[r].tx_lookups = 0
        /\ pay[r].seen # {} /\ ZeroHash \notin pay[r].seen
        /\ pay[r].last_answer # NoHash

\* The row of order o holds non-empty payment details.
HasPaymentDetails(o) ==
    orders[o].present /\ orders[o].alipay_id # Empty /\ orders[o].alipay_name # Empty

\* C35: of the submit_payment_info requests that name the same order directly,
\* at most one writes: no request writes to the row of the order it named once
\* that row holds non-empty payment details, also when it passed the already-set
\* check before another request's update.
C35_WriteOnceAcrossGap ==
    [][\A r \in PayReqs :
        (/\ ~pay[r].wrote /\ pay'[r].wrote
         /\ pay[r].effective_order_id = pay[r].order_id)
        => ~HasPaymentDetails(pay[r].order_id)]_vars

\* C36: a request that the tx-hash fallback resolved to another order id does not
\* write when the resolved order's row already holds non-empty payment details.
C36_WriteOnceOnResolvedOrder ==
    [][\A r \in PayReqs :
        (/\ ~pay[r].wrote /\ pay'[r].wrote
         /\ pay[r].effective_order_id # pay[r].order_id)
        => ~HasPaymentDetails(pay[r].effective_order_id)]_vars

\* The consume call of task t completes in this step.
Consumes(t) == auth.task[t].pc = "consume_wait" /\ auth'.task[t].pc # "consume_wait"

\* C34: under every interleaving of generate and consume calls, a consume returns
\* true only for a nonce that was issued, has not been consumed (with either
\* result) since it was issued, and is younger than NONCE_EXPIRY_SECS; so one
\* issued nonce makes consume return true at most once.
C34_ConsumeTrueAtMostOnce ==
    [][\A t \in AuthTasks :
        (Consumes(t) /\ auth'.task[t].nonce_valid) =>
            /\ auth.task[t].nonce \in auth.fresh
            /\ now - auth.issued_at[auth.task[t].nonce] < NONCE_EXPIRY_SECS]_vars

\* A nonce was consumed with true by one request and then refused to the other,
\* with no generate call anywhere in between (one issue, three requests started).
C34_Witness ==
    \E t, u \in AuthTasks, n \in Nonces :
        /\ auth.ops = 3
        /\ auth.task[t].nonce = n /\ auth.task[t].nonce_valid /\ auth.task[t].result = "Token"
        /\ auth.task[u].nonce = n /\ auth.task[u].result = "InvalidNonce"
        /\ auth.task[u].signature = "valid"

\* C39: verify_siwe consumes the nonce before it looks at the signature: when its
\* consume has returned true the nonce is gone from the store, a signature that is
\* malformed or does not verify then ends the request without putting it back,
\* and a request whose nonce was consumed since it was issued is rejected as an
\* invalid or expired nonce whatever its signature.
C39_NonceSpentBeforeSignature ==
    [][\A t \in AuthTasks :
        LET n == auth.task[t].nonce IN
        /\ (Consumes(t) /\ auth'.task[t].pc = "signature")
               => nonce_store'[n] = NoNonceEntry
        /\ (auth.task[t].pc = "signature" /\ auth'.task[t].pc = "done")
               => /\ nonce_store' = nonce_store
                  /\ auth.task[t].signature # "valid"
                        => auth'.task[t].result \in {"InvalidSignatureFormat", "Unauthorized"}
        /\ (Consumes(t) /\ n \notin auth.fresh)
               => auth'.task[t].pc = "done" /\ auth'.task[t].result = "InvalidNonce"]_vars

\* A request with an issued nonce and a signature that does not verify was
\* rejected, and the following request with the same nonce and a valid signature
\* was rejected for its nonce (one issue, three requests started, no time passed).
C39_Witness ==
    \E t, u \in AuthTasks, n \in Nonces :
        /\ auth.ops = 3 /\ now = 0
        /\ auth.task[t].nonce = n /\ auth.task[t].result = "Unauthorized"
        /\ auth.task[u].nonce = n /\ auth.task[u].result = "InvalidNonce"
        /\ auth.task[u].signature = "valid"
        /\ nonce_store[n] = NoNonceEntry /\ n \notin auth.fresh

\* C37: the cached configuration of a chain never regresses: an entry holding the
\* answer of an upstream fetch is never replaced by an answer the same chain gave
\* earlier (a lower version of its configuration).
C37_CacheNeverRegresses ==
    [][\A c \in ChainIds :
        (/\ config_cache[c].present /\ config_cache'[c].present
         /\ config_cache'[c].config.chain = config_cache[c].config.chain)
        => config_cache'[c].config.ver >= config_cache[c].config.ver]_vars

\* C33: the timeline an answered get_order_activities request returns holds one
\* activity per withdrawal and exactly one per trade of the order, tagged by the
\* trade's status when that is 0, 1 or 2; a trade with any other status is still
\* accounted for in the answer and not left out.
C33_OneActivityPerTrade ==
    act.result = "Ok" =>
        /\ Len(act.activities) = Len(act.trades) + Len(act.withdrawals)
        /\ \A i \in 1..Len(act.trades) :
               LET mine == {k \in 1..Len(act.activities) : act.activities[k].trade_id = i}
               IN  /\ Cardinality(mine) = 1
                   /\ \A k \in mine :
                          /\ act.trades[i].status = 0 => act.activities[k].kind = "PendingTrade"
                          /\ act.trades[i].status = 1 => act.activities[k].kind = "Trade"
                          /\ act.trades[i].status = 2 => act.activities[k].kind = "ExpiredTrade"

\* C40: the chains list Config::load builds holds no two entries with the same
\* chain_id, whatever the chain environment variables are.
C40_NoDuplicateChainIds ==
    \A i, j \in 1..Len(boot.chains) :
        boot.chains[i].chain_id = boot.chains[j].chain_id => i = j

\* C32: the progress every tick owes an eligible trade. When a tick whose query
\* succeeded returns, every selected trade with a registered client and an id that
\* parses, which is not settled on chain, whose cancellation call did not fail in
\* the tick and whose status update did not fail, has database status Expired,
\* whichever other trades were selected with it.
C32_EligibleTradeExpires ==
    (/\ rc.pc \in {"return_ok", "return_err"}
     /\ ~(rc.pc = "return_err" /\ rc.expired_trades = <<>>))
    => \A t \in Range(rc.expired_trades) :
           (/\ trades[t].chain_id \in clients
            /\ parse_trade_id(TradeIdText(t))
            /\ chain_trade[t] # TRADE_STATUS_SETTLED
            /\ t \notin rc.failed
            /\ ~(chain_trade[t] = TRADE_STATUS_EXPIRED
                    /\ trades[t].status = TRADE_STATUS_PENDING))
           => trades[t].status = TRADE_STATUS_EXPIRED

\* The step of a status update that fails after a successful cancellation: the
\* tick goes on to the next trade, counts the trade and its gas cost, and leaves
\* the database record as it was.
UpdateFailureGoesOn ==
    [][(/\ rc.pc = "update" /\ rc' # rc
        /\ CurrentTrade \notin rc'.marked)
        => /\ rc'.pc = "trade" /\ rc'.idx = rc.idx + 1
           /\ rc'.cancelled_count = rc.cancelled_count + 1
           /\ rc'.total_gas_wei = rc.total_gas_wei + rc.gas_cost
           /\ trades' = trades
           /\ trades[CurrentTrade].status = TRADE_STATUS_PENDING]_vars

\* C38: a status update that fails after a successful cancellation does not end
\* the tick, the trade is counted with its gas cost and stays Pending in the
\* database; and when a later tick whose query succeeded returns, every trade
\* that is cancelled on chain and still Pending in the database was selected by
\* it and has had a cancellation submitted by it.
C38_UpdateFailureRetried ==
    /\ UpdateFailureGoesOn
    /\ []((/\ rc.pc \in {"return_ok", "return_err"}
           /\ ~(rc.pc = "return_err" /\ rc.expired_trades = <<>>))
          => \A t \in TradeIds :
                 (/\ chain_trade[t] = TRADE_STATUS_EXPIRED
                  /\ trades[t].status = TRADE_STATUS_PENDING)
                 => /\ t \in Range(rc.expired_trades)
                    /\ \E c \in ChainIds : <<t, c>> \in rc.calls)

====
